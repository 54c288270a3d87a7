------------------------------ MODULE StartupProofs ------------------------------
(***************************************************************************)
(* What is proved of the startup observer, of the preflight of the         *)
(* simulation, and of the trials in it.                                    *)
(*                                                                         *)
(* The startup observer: StartupInvariant is inductive.  A prearm request  *)
(* is outstanding in its own phase only, a reset is asked for where there  *)
(* was none, and what is known of a node was served before the request     *)
(* outstanding was sent: an answer that still counts is never older.       *)
(*                                                                         *)
(* The preflight: PreflightInvariant is inductive.  A stream counts no     *)
(* more samples than it heard different moments (TakenFollows).            *)
(*                                                                         *)
(* The trials: TrialInvariant is inductive.  A gate is reached only behind *)
(* one that succeeded, what the helper found active was active in its      *)
(* probe (a node that leaves that state afterwards takes nothing from it), *)
(* what the runner wrote of a segment is what Nav2 drove, and while a      *)
(* trial goes on nobody changes the parameters.  Every goal is therefore   *)
(* sent behind a helper that saw every node active, and the verdict on a   *)
(* run is right both ways.                                                 *)
(***************************************************************************)
EXTENDS SimTrial, StartupStatus, SimPreflight, SequenceTheorems, FiniteSetTheorems, TLAPS

-----------------------------------------------------------------------------
(* The startup observer.  Its invariant again, as predicates of an observer o, the
   time t, the requests w and what the stack has done k. *)

ObserverType ==
  [known: [Polls -> [value: Words, served: Moments]], pending: [Rpcs -> Moments],
   polled: Moments, heard: [Inputs -> Moments], quiet: BOOLEAN,
   costmaps: SUBSET Scopes, phase: Phases, failed: BOOLEAN, exit: {Nil, 0, 1}]
RequestType == [call: LifecycleNodes \cup PrearmCalls, sent: Nat, served: Moments, value: Words]
StackType == [latched: BOOLEAN, resets: Nat]

SentBefore(w, t) ==
  \A r \in w : r.sent <= t /\ (r.served # Nil => r.sent <= r.served /\ r.served <= t)
KnownBefore(o, t) ==
  \A node \in LifecycleNodes :
    LET served == o.known[node].served
        sent == o.pending[node]
    IN served # Nil => served <= t /\ (sent # Nil => served <= sent)
PrearmPending(o) ==
  /\ o.pending["emergency_stop"] # Nil => o.phase = "latching_stop"
  /\ o.pending["reset"] # Nil => o.phase = "resetting_origin"
StopsLatch(w, k) == \A r \in w : r.call = "emergency_stop" /\ r.value = "yes" => k.latched
PhaseLatched(o, k) == o.phase \in {"reset", "resetting_origin", "complete"} => k.latched
ResetsIn(w) == {r \in w : r.call = "reset"}
ResetsOf(o, w, k) ==
  /\ ResetsIn(w) # {} \/ k.resets # 0 => o.phase \in {"resetting_origin", "complete"}
  /\ o.phase = "complete" => k.resets = 1
ResetsOnce(w, k) ==
  /\ \A r, s \in ResetsIn(w) : r = s
  /\ \A r \in ResetsIn(w) : k.resets = IF r.served = Nil THEN 0 ELSE 1
  /\ k.resets <= 1
ExitOf(o) == o.exit = 0 => o.phase \in {"disabled", "complete"}

\* What concerns the observer alone, and what concerns the requests.
ObserverOf(o, t, w, k) ==
  /\ o \in ObserverType /\ KnownBefore(o, t) /\ PrearmPending(o)
  /\ PhaseLatched(o, k) /\ ResetsOf(o, w, k)
WireOf(t, w, k) ==
  /\ w \subseteq RequestType /\ k \in StackType
  /\ SentBefore(w, t) /\ StopsLatch(w, k) /\ ResetsOnce(w, k)

LEMMA StartupInvariantIs ==
  StartupInvariant <=> /\ elapsed \in Nat
                       /\ ObserverOf(observer, elapsed, wire, stack) /\ ExitOf(observer)
                       /\ WireOf(elapsed, wire, stack)
<1>1. StartupTyped <=> /\ elapsed \in Nat /\ observer \in ObserverType
                       /\ wire \subseteq RequestType /\ stack \in StackType
  BY DEF StartupTyped, ObserverType, RequestType, StackType
<1>2. MomentsFollow <=> SentBefore(wire, elapsed) /\ KnownBefore(observer, elapsed)
  BY DEF MomentsFollow, SentBefore, KnownBefore
<1>3. LatchingFollows <=> PrearmPending(observer) /\ StopsLatch(wire, stack) /\ PhaseLatched(observer, stack)
  BY DEF LatchingFollows, PrearmPending, StopsLatch, PhaseLatched
<1>4. ResetFollows <=> ResetsOf(observer, wire, stack) /\ ResetsOnce(wire, stack) /\ ExitOf(observer)
  BY DEF ResetFollows, ResetsOf, ResetsOnce, ExitOf, Resets, ResetsIn
<1>5. QED
  BY <1>1, <1>2, <1>3, <1>4 DEF StartupInvariant, ObserverOf, WireOf

\* The same of the next state.
LEMMA StartupInvariantNext ==
  StartupInvariant' <=> /\ elapsed' \in Nat
                        /\ ObserverOf(observer', elapsed', wire', stack') /\ ExitOf(observer')
                        /\ WireOf(elapsed', wire', stack')
<1>1. StartupTyped' <=> /\ elapsed' \in Nat /\ observer' \in ObserverType
                        /\ wire' \subseteq RequestType /\ stack' \in StackType
  BY DEF StartupTyped, ObserverType, RequestType, StackType
<1>2. MomentsFollow' <=> SentBefore(wire', elapsed') /\ KnownBefore(observer', elapsed')
  BY DEF MomentsFollow, SentBefore, KnownBefore
<1>3. LatchingFollows' <=> /\ PrearmPending(observer') /\ StopsLatch(wire', stack')
                           /\ PhaseLatched(observer', stack')
  BY DEF LatchingFollows, PrearmPending, StopsLatch, PhaseLatched
<1>4. ResetFollows' <=> /\ ResetsOf(observer', wire', stack') /\ ResetsOnce(wire', stack')
                        /\ ExitOf(observer')
  BY DEF ResetFollows, ResetsOf, ResetsOnce, ExitOf, Resets, ResetsIn
<1>5. QED
  BY <1>1, <1>2, <1>3, <1>4 DEF StartupInvariant, ObserverOf, WireOf

\* The calls of the prearm sequence are no polls.
LEMMA StartupConstants ==
  /\ LifecycleNodes \subseteq Polls /\ Parameters \subseteq Polls /\ Polls \subseteq Rpcs
  /\ LifecycleNodes \cap Parameters = {}
  /\ "emergency_stop" \in Rpcs /\ "reset" \in Rpcs
  /\ "emergency_stop" \notin Polls /\ "reset" \notin Polls /\ Rpcs = Polls \cup PrearmCalls
  /\ Nil \notin Nat /\ Nil # "yes" /\ Nil # "no"
  /\ \A t \in Nat : t \in Moments /\ t # Nil
  /\ RpcTimeout \in Nat /\ PrearmTimeout \in Nat /\ StartupTimeout \in Nat /\ MaxElapsed \in Nat
  BY StartupAssumption DEF Polls, Rpcs, PrearmCalls, Moments

LEMMA StartupStarts == StartupInit => StartupInvariant
<1> SUFFICES ASSUME StartupInit PROVE StartupInvariant
  OBVIOUS
<1>1. PICK prearm \in BOOLEAN : observer = ObserverInit(prearm)
  BY DEF StartupInit
<1>2. ObserverInit(prearm) \in ObserverType
  BY DEF ObserverInit, ObserverType, Unknown, Words, Moments, Phases
<1>3. elapsed \in Nat /\ wire = {} /\ stack = [latched |-> FALSE, resets |-> 0]
  BY DEF StartupInit
<1>4. WireOf(elapsed, wire, stack)
  BY <1>3 DEF WireOf, StackType, SentBefore, StopsLatch, ResetsOnce, ResetsIn
<1>5. KnownBefore(observer, elapsed) /\ PrearmPending(observer)
  BY <1>1, StartupConstants DEF ObserverInit, Unknown, KnownBefore, PrearmPending
<1>6. PhaseLatched(observer, stack) /\ ResetsOf(observer, wire, stack) /\ ExitOf(observer)
  BY <1>1, <1>3, StartupConstants DEF ObserverInit, PhaseLatched, ResetsOf, ResetsIn, ExitOf
<1>7. QED
  BY <1>1, <1>2, <1>3, <1>4, <1>5, <1>6, StartupInvariantIs DEF ObserverOf

-----------------------------------------------------------------------------
(* Answers. *)

\* An observer whose knowledge, prearm requests and phase are the same.
LEMMA SameObserverKeeps ==
  ASSUME NEW o, NEW t, NEW w, NEW k, ObserverOf(o, t, w, k), NEW p \in ObserverType,
         p.known = o.known, p.pending = o.pending, p.phase = o.phase
  PROVE  ObserverOf(p, t, w, k)
<1>1. KnownBefore(p, t)
  BY DEF ObserverOf, KnownBefore
<1>2. QED
  BY <1>1 DEF ObserverOf, PrearmPending, PhaseLatched, ResetsOf

\* Requests that are forgotten.
LEMMA FewerRequestsKeep ==
  ASSUME NEW o, NEW t, NEW w, NEW k, ObserverOf(o, t, w, k), WireOf(t, w, k), NEW v \in SUBSET w
  PROVE  ObserverOf(o, t, v, k) /\ WireOf(t, v, k)
<1>1. ResetsIn(v) \subseteq ResetsIn(w)
  BY DEF ResetsIn
<1>2. SentBefore(v, t) /\ StopsLatch(v, k) /\ ResetsOnce(v, k)
  BY <1>1 DEF WireOf, SentBefore, StopsLatch, ResetsOnce
<1>3. ResetsOf(o, v, k)
  BY <1>1 DEF ObserverOf, ResetsOf
<1>4. QED
  BY <1>2, <1>3 DEF ObserverOf, WireOf

\* An answer that is current moves the observer on; it was served after what was known.
LEMMA StoredKeeps ==
  ASSUME NEW o, NEW t \in Nat, NEW w, NEW k, ObserverOf(o, t, w, k), WireOf(t, w, k),
         NEW answer \in w, answer.served # Nil, TakeCurrentRpc(o, answer)
  PROVE  /\ ObserverOf(Stored(o, answer), t, w, k)
         /\ \A node \in LifecycleNodes :
              o.known[node].served # Nil
              => Stored(o, answer).known[node].served >= o.known[node].served
         /\ Stored(o, answer).exit = o.exit
<1>1. /\ answer \in RequestType /\ o \in ObserverType /\ k \in StackType
      /\ KnownBefore(o, t) /\ PrearmPending(o) /\ PhaseLatched(o, k) /\ ResetsOf(o, w, k)
      /\ SentBefore(w, t) /\ StopsLatch(w, k) /\ ResetsOnce(w, k)
  BY DEF ObserverOf, WireOf
<1>2. /\ answer.call \in LifecycleNodes \cup PrearmCalls /\ answer.sent \in Nat
      /\ answer.served \in Nat /\ answer.sent <= answer.served /\ answer.served <= t
      /\ o.pending[answer.call] = answer.sent /\ answer.value \in Words
  BY <1>1 DEF RequestType, SentBefore, TakeCurrentRpc, Moments
<1> DEFINE popped == [o EXCEPT !.pending[answer.call] = Nil]
<1>3. /\ popped \in ObserverType /\ popped.known = o.known /\ popped.phase = o.phase
      /\ popped.exit = o.exit
      /\ popped.pending[answer.call] = Nil
      /\ \A call \in Rpcs : popped.pending[call] # Nil => popped.pending[call] = o.pending[call]
  BY <1>1, <1>2, StartupConstants DEF ObserverType, Moments
<1>4. ObserverOf(popped, t, w, k)
  <2>1. KnownBefore(popped, t)
    BY <1>1, <1>3, StartupConstants DEF KnownBefore
  <2>2. PrearmPending(popped)
    BY <1>1, <1>3, StartupConstants DEF PrearmPending
  <2>3. QED
    BY <1>1, <1>3, <2>1, <2>2 DEF ObserverOf, PhaseLatched, ResetsOf
<1>5. CASE answer.call \in LifecycleNodes
  <2> DEFINE node == answer.call
             s == Learned(popped, answer)
  <2>1. Stored(o, answer) = s
    BY <1>5 DEF Stored
  <2>2. s = [popped EXCEPT !.known[answer.call] = [value |-> answer.value, served |-> answer.served]]
    BY DEF Learned
  <2>3. /\ s \in ObserverType /\ s.phase = o.phase /\ s.pending = popped.pending /\ s.exit = o.exit
        /\ s.known[node].served = answer.served
        /\ \A other \in LifecycleNodes \ {node} : s.known[other] = o.known[other]
    <3> HIDE DEF popped
    <3>1. node \in Polls
      BY <1>5, StartupConstants
    <3>2. QED
      <4> DEFINE told == [value |-> answer.value, served |-> answer.served]
                 K == [popped.known EXCEPT ![node] = told]
      <4>1. told \in [value: Words, served: Moments] /\ told.served = answer.served
        BY <1>2, StartupConstants
      <4>2. popped.known \in [Polls -> [value: Words, served: Moments]]
        BY <1>3 DEF ObserverType
      <4>3. s = [popped EXCEPT !.known = K]
        BY <1>3, <2>2 DEF ObserverType
      <4> HIDE DEF told
      <4>4. /\ K \in [Polls -> [value: Words, served: Moments]] /\ K[node] = told
            /\ \A other \in LifecycleNodes \ {node} : K[other] = popped.known[other]
        BY <3>1, <4>1, <4>2, StartupConstants
      <4> HIDE DEF s, K
      <4>5. QED
        BY <1>3, <4>1, <4>3, <4>4 DEF ObserverType
  <2> HIDE DEF s, popped
  <2>4. KnownBefore(s, t)
    <3> SUFFICES ASSUME NEW other \in LifecycleNodes, s.known[other].served # Nil
                 PROVE  /\ s.known[other].served <= t
                        /\ s.pending[other] # Nil => s.known[other].served <= s.pending[other]
      BY DEF KnownBefore
    <3>1. CASE other = node
      BY <1>2, <1>3, <2>3, <3>1
    <3>2. CASE other # node
      BY <1>4, <2>3, <1>3, <3>2 DEF ObserverOf, KnownBefore
    <3>3. QED
      BY <3>1, <3>2
  <2>5. ASSUME NEW other \in LifecycleNodes, o.known[other].served # Nil
        PROVE  s.known[other].served >= o.known[other].served
    <3>1. o.known[other].served \in Nat
      BY <1>1, <2>5, StartupConstants DEF ObserverType, Moments
    <3>2. CASE other = node
      BY <1>1, <1>2, <2>3, <2>5, <3>1, <3>2, StartupConstants DEF KnownBefore
    <3>3. CASE other # node
      BY <2>3, <3>1, <3>3
    <3>4. QED
      BY <3>2, <3>3
  <2>6. PrearmPending(s) /\ PhaseLatched(s, k) /\ ResetsOf(s, w, k)
    BY <1>3, <1>4, <2>3 DEF ObserverOf, PrearmPending, PhaseLatched, ResetsOf
  <2>7. QED
    BY <2>1, <2>3, <2>4, <2>5, <2>6 DEF ObserverOf
<1>6. CASE answer.call \notin LifecycleNodes
  <2> DEFINE s == PrearmAnswered(popped, answer)
  <2>1. Stored(o, answer) = s
    BY <1>6 DEF Stored
  <2>2. answer.call \in {"emergency_stop", "reset"}
    BY <1>2, <1>6 DEF PrearmCalls
  <2>3. \A node \in LifecycleNodes : o.known[node].served # Nil => o.known[node].served \in Nat
    BY <1>1, StartupConstants DEF ObserverType, Moments
  <2>4. CASE answer.value # "yes"
    <3>1. s = [popped EXCEPT !.failed = TRUE]
      BY <2>4 DEF PrearmAnswered, PrearmFails
    <3>2. s \in ObserverType /\ s.known = o.known /\ s.pending = popped.pending
          /\ s.phase = o.phase /\ s.exit = o.exit
      <4> HIDE DEF popped
      <4>1. QED
        BY <1>3, <3>1 DEF ObserverType
    <3> HIDE DEF s, popped
    <3>3. ObserverOf(s, t, w, k)
      BY <1>3, <1>4, <3>2, SameObserverKeeps
    <3>4. QED
      BY <2>1, <2>3, <3>2, <3>3
  <2>5. ASSUME answer.value = "yes", NEW next \in {"reset", "complete"},
               s = [popped EXCEPT !.phase = next],
               next = "reset" => answer.call = "emergency_stop",
               next = "complete" => answer.call = "reset"
        PROVE  /\ ObserverOf(s, t, w, k)
               /\ \A node \in LifecycleNodes :
                    o.known[node].served # Nil
                    => s.known[node].served >= o.known[node].served
               /\ s.exit = o.exit
    <3>1. s \in ObserverType /\ s.known = o.known /\ s.pending = popped.pending
          /\ s.phase = next /\ s.exit = o.exit
      <4> HIDE DEF popped
      <4>1. QED
        BY <1>3, <2>5 DEF ObserverType, Phases
    <3>2. KnownBefore(s, t)
      BY <1>3, <1>4, <3>1 DEF ObserverOf, KnownBefore
    <3>3. o.pending[answer.call] # Nil
      BY <1>2, StartupConstants
    <3>4. next = "reset" => o.phase = "latching_stop"
      BY <1>1, <2>5, <3>3 DEF PrearmPending
    <3>5. next = "complete" => o.phase = "resetting_origin"
      BY <1>1, <2>5, <3>3 DEF PrearmPending
    <3>6. PrearmPending(s)
      <4> HIDE DEF popped, s
      <4>1. QED
        BY <1>3, <1>1, <2>5, <3>1, <3>4, <3>5, StartupConstants DEF PrearmPending
    <3>7. PhaseLatched(s, k)
      BY <1>1, <2>5, <3>1, <3>5 DEF PhaseLatched, StopsLatch
    <3>8. ResetsOf(s, w, k)
      <4>1. CASE next = "reset"
        BY <1>1, <3>1, <3>4, <4>1 DEF ResetsOf
      <4>2. CASE next = "complete"
        <5>1. answer \in ResetsIn(w)
          BY <2>5, <4>2 DEF ResetsIn
        <5>2. k.resets = 1
          BY <1>1, <5>1 DEF ResetsOnce
        <5>3. QED
          BY <3>1, <4>2, <5>2 DEF ResetsOf
      <4>3. QED
        BY <4>1, <4>2
    <3> HIDE DEF s, popped
    <3>9. QED
      BY <2>3, <3>1, <3>2, <3>6, <3>7, <3>8 DEF ObserverOf
  <2>6. CASE answer.value = "yes" /\ answer.call = "emergency_stop"
    <3>1. s = [popped EXCEPT !.phase = "reset"]
      BY <2>6 DEF PrearmAnswered
    <3> HIDE DEF s
    <3>2. QED
      BY <2>1, <2>5, <2>6, <3>1
  <2>7. CASE answer.value = "yes" /\ answer.call = "reset"
    <3>1. s = [popped EXCEPT !.phase = "complete"]
      BY <2>7 DEF PrearmAnswered
    <3> HIDE DEF s
    <3>2. QED
      BY <2>1, <2>5, <2>7, <3>1
  <2>8. QED
    BY <2>2, <2>4, <2>6, <2>7
<1>7. QED
  BY <1>5, <1>6

-----------------------------------------------------------------------------
(* The tick. *)

\* A poll asks for what is known before the request is sent; it asks nothing of the
\* prearm sequence.
LEMMA PolledKeeps ==
  ASSUME NEW o, NEW w, NEW k, ObserverOf(o, elapsed, w, k), elapsed \in Nat, NEW services
  PROVE  /\ ObserverOf(Polled(o, services), elapsed, w, k)
         /\ Polled(o, services).known = o.known /\ Polled(o, services).phase = o.phase
         /\ Polled(o, services).exit = o.exit
         /\ Polled(o, services).pending["reset"] = o.pending["reset"]
<1>1. o \in ObserverType /\ KnownBefore(o, elapsed) /\ PrearmPending(o)
  BY DEF ObserverOf
<1> DEFINE P == [call \in Rpcs |-> IF call \in Asked(o, services) THEN elapsed
                                   ELSE IF call \in Polls /\ TimedOut(o, call, RpcTimeout) THEN Nil
                                   ELSE o.pending[call]]
           p == Polled(o, services)
<1>2. p = [o EXCEPT !.polled = elapsed, !.pending = P]
  BY DEF Polled
<1>3. P \in [Rpcs -> Moments]
  BY <1>1 DEF ObserverType, Moments
<1>4. Asked(o, services) \subseteq Polls
  BY DEF Asked
<1>5. P["emergency_stop"] = o.pending["emergency_stop"] /\ P["reset"] = o.pending["reset"]
  BY <1>4, StartupConstants
<1>6. \A node \in LifecycleNodes : P[node] \in {elapsed, Nil, o.pending[node]}
  BY StartupConstants
<1> HIDE DEF P, p
<1>7. /\ p \in ObserverType /\ p.known = o.known /\ p.phase = o.phase /\ p.exit = o.exit
      /\ p.pending = P
  BY <1>1, <1>2, <1>3 DEF ObserverType, Moments
<1>8. KnownBefore(p, elapsed)
  BY <1>1, <1>6, <1>7 DEF KnownBefore
<1>9. PrearmPending(p)
  BY <1>1, <1>5, <1>7 DEF PrearmPending
<1>10. QED
  BY <1>5, <1>7, <1>8, <1>9 DEF ObserverOf, PhaseLatched, ResetsOf, p

\* A prearm request is made in its turn, is refused, or waits.
LEMMA AsksKeeps ==
  ASSUME NEW o, NEW w, NEW k, ObserverOf(o, elapsed, w, k), elapsed \in Nat,
         NEW services \in {"absent", "broken", "ready"}, NEW call, NEW next,
         \/ o.phase = "health" /\ call = "emergency_stop" /\ next = "latching_stop"
         \/ o.phase = "reset" /\ call = "reset" /\ next = "resetting_origin"
  PROVE  /\ ObserverOf(PrearmAsks(o, call, next, services), elapsed, w, k)
         /\ PrearmAsks(o, call, next, services).known = o.known
         /\ PrearmAsks(o, call, next, services).exit = o.exit
         /\ PrearmAsks(o, call, next, services).pending["reset"] # o.pending["reset"]
            => o.phase = "reset" /\ PrearmAsks(o, call, next, services).phase = "resetting_origin"
<1>1. /\ o \in ObserverType /\ KnownBefore(o, elapsed) /\ PrearmPending(o)
      /\ PhaseLatched(o, k) /\ ResetsOf(o, w, k)
  BY DEF ObserverOf
<1> DEFINE p == PrearmAsks(o, call, next, services)
<1>2. CASE services = "absent"
  BY <1>2 DEF PrearmAsks
<1>3. CASE services = "broken"
  <2>1. p = [o EXCEPT !.failed = TRUE]
    BY <1>3 DEF PrearmAsks, PrearmFails
  <2> HIDE DEF p
  <2>2. /\ p \in ObserverType /\ p.known = o.known /\ p.pending = o.pending
        /\ p.phase = o.phase /\ p.exit = o.exit
    BY <1>1, <2>1 DEF ObserverType
  <2>3. QED
    BY <2>2, SameObserverKeeps DEF p
<1>4. CASE services = "ready"
  <2> DEFINE P == [o.pending EXCEPT ![call] = elapsed]
  <2>1. p = [o EXCEPT !.pending = P, !.phase = next]
    BY <1>1, <1>4 DEF PrearmAsks, ObserverType
  <2>2. call \in Rpcs /\ call \notin LifecycleNodes /\ next \in Phases
    BY StartupConstants DEF Phases
  <2>3. P \in [Rpcs -> Moments] /\ \A other \in Rpcs \ {call} : P[other] = o.pending[other]
    BY <1>1, <2>2 DEF ObserverType, Moments
  <2> HIDE DEF p, P
  <2>4. /\ p \in ObserverType /\ p.known = o.known /\ p.pending = P
        /\ p.phase = next /\ p.exit = o.exit
    BY <1>1, <2>1, <2>2, <2>3 DEF ObserverType
  <2>5. \A node \in LifecycleNodes : p.pending[node] = o.pending[node]
    BY <2>2, <2>3, <2>4, StartupConstants
  <2>6. KnownBefore(p, elapsed)
    BY <1>1, <2>4, <2>5 DEF KnownBefore
  <2>7. PrearmPending(p)
    BY <1>1, <2>3, <2>4, StartupConstants DEF PrearmPending
  <2>8. PhaseLatched(p, k) /\ ResetsOf(p, w, k)
    BY <1>1, <2>4 DEF PhaseLatched, ResetsOf
  <2>9. p.pending["reset"] # o.pending["reset"] => o.phase = "reset" /\ p.phase = "resetting_origin"
    BY <2>3, <2>4, StartupConstants
  <2>10. QED
    BY <2>4, <2>6, <2>7, <2>8, <2>9 DEF ObserverOf, p
<1>5. QED
  BY <1>2, <1>3, <1>4

\* One that times out is not made again.
LEMMA WaitsKeeps ==
  ASSUME NEW o, NEW w, NEW k, ObserverOf(o, elapsed, w, k), elapsed \in Nat,
         NEW call \in {"emergency_stop", "reset"}
  PROVE  /\ ObserverOf(PrearmWaits(o, call), elapsed, w, k)
         /\ PrearmWaits(o, call).known = o.known /\ PrearmWaits(o, call).exit = o.exit
         /\ PrearmWaits(o, call).phase = o.phase
         /\ PrearmWaits(o, call).pending["reset"] \in {o.pending["reset"], Nil}
<1>1. /\ o \in ObserverType /\ KnownBefore(o, elapsed) /\ PrearmPending(o)
      /\ PhaseLatched(o, k) /\ ResetsOf(o, w, k)
  BY DEF ObserverOf
<1> DEFINE p == PrearmWaits(o, call)
<1>2. CASE ~ TimedOut(o, call, PrearmTimeout)
  BY <1>2 DEF PrearmWaits
<1>3. CASE TimedOut(o, call, PrearmTimeout)
  <2> DEFINE P == [o.pending EXCEPT ![call] = Nil]
  <2>1. p = [o EXCEPT !.pending = P, !.failed = TRUE]
    BY <1>1, <1>3 DEF PrearmWaits, DiscardExpiredPrearm, PrearmFails, ObserverType
  <2>2. call \in Rpcs /\ call \notin LifecycleNodes
    BY StartupConstants
  <2>3. /\ P \in [Rpcs -> Moments] /\ P[call] = Nil
        /\ \A other \in Rpcs \ {call} : P[other] = o.pending[other]
    BY <1>1, <2>2 DEF ObserverType, Moments
  <2> HIDE DEF p, P
  <2>4. /\ p \in ObserverType /\ p.known = o.known /\ p.pending = P
        /\ p.phase = o.phase /\ p.exit = o.exit
    BY <1>1, <2>1, <2>3 DEF ObserverType
  <2>5. \A node \in LifecycleNodes : p.pending[node] = o.pending[node]
    BY <2>2, <2>3, <2>4, StartupConstants
  <2>6. KnownBefore(p, elapsed)
    BY <1>1, <2>4, <2>5 DEF KnownBefore
  <2>7. PrearmPending(p)
    BY <1>1, <2>3, <2>4, StartupConstants DEF PrearmPending
  <2>8. PhaseLatched(p, k) /\ ResetsOf(p, w, k)
    BY <1>1, <2>4 DEF PhaseLatched, ResetsOf
  <2>9. p.pending["reset"] \in {o.pending["reset"], Nil}
    BY <2>3, <2>4, StartupConstants
  <2>10. QED
    BY <2>4, <2>6, <2>7, <2>8, <2>9 DEF ObserverOf, p
<1>4. QED
  BY <1>2, <1>3

\* So the prearm sequence goes on; it asks for a reset only where there was none.
LEMMA PrearmedKeeps ==
  ASSUME NEW o, NEW w, NEW k, ObserverOf(o, elapsed, w, k), elapsed \in Nat,
         NEW services \in {"absent", "broken", "ready"}
  PROVE  /\ ObserverOf(Prearmed(o, services), elapsed, w, k)
         /\ Prearmed(o, services).known = o.known /\ Prearmed(o, services).exit = o.exit
         /\ Prearmed(o, services).pending["reset"] \in {o.pending["reset"], Nil}
            \/ (o.phase = "reset" /\ Prearmed(o, services).phase = "resetting_origin")
<1>1. o \in ObserverType /\ o.phase \in Phases
  BY DEF ObserverOf, ObserverType
<1>2. CASE o.phase = "disabled" \/ (o.phase = "health" /\ ~ NothingMissing(o, services))
  BY <1>2 DEF Prearmed
<1>3. CASE ~ (o.phase = "disabled" \/ (o.phase = "health" /\ ~ NothingMissing(o, services)))
  <2>1. Prearmed(o, services) = AdvancePrearm(o, services)
    BY <1>3 DEF Prearmed
  <2>2. CASE o.failed \/ o.phase = "complete"
    <3>1. AdvancePrearm(o, services) = o
      BY <2>2 DEF AdvancePrearm
    <3>2. QED
      BY <2>1, <3>1
  <2>3. CASE o.phase = "health" /\ ~ o.failed
    <3>1. AdvancePrearm(o, services) = PrearmAsks(o, "emergency_stop", "latching_stop", services)
      BY <2>3 DEF AdvancePrearm
    <3>2. QED
      BY <2>1, <2>3, <3>1, AsksKeeps
  <2>4. CASE o.phase = "latching_stop" /\ ~ o.failed
    <3>1. AdvancePrearm(o, services) = PrearmWaits(o, "emergency_stop")
      BY <2>4 DEF AdvancePrearm
    <3>2. QED
      BY <2>1, <2>4, <3>1, WaitsKeeps
  <2>5. CASE o.phase = "reset" /\ ~ o.failed
    <3>1. AdvancePrearm(o, services) = PrearmAsks(o, "reset", "resetting_origin", services)
      BY <2>5 DEF AdvancePrearm
    <3>2. QED
      BY <2>1, <2>5, <3>1, AsksKeeps
  <2>6. CASE o.phase = "resetting_origin" /\ ~ o.failed
    <3>1. AdvancePrearm(o, services) = PrearmWaits(o, "reset")
      BY <2>6 DEF AdvancePrearm
    <3>2. QED
      BY <2>1, <2>6, <3>1, WaitsKeeps
  <2>7. o.phase # "disabled"
    BY <1>3
  <2>8. QED
    BY <1>1, <2>2, <2>3, <2>4, <2>5, <2>6, <2>7 DEF Phases
<1>4. QED
  BY <1>2, <1>3

\* A verdict of zero needs a sequence that is complete or was not asked for.
LEMMA VerdictIsOfPhase ==
  ASSUME NEW o, NEW services
  PROVE  /\ Verdict(o, services) \in {Nil, 0, 1}
         /\ Verdict(o, services) = 0 => o.phase \in {"disabled", "complete"}
<1>1. CASE o.failed
  BY <1>1, StartupConstants DEF Verdict
<1>2. CASE o.phase = "complete" /\ ~ o.failed
  BY <1>2, StartupConstants DEF Verdict
<1>3. CASE o.phase = "disabled" /\ ~ o.failed /\ NothingMissing(o, services)
  BY <1>3, StartupConstants DEF Verdict
<1>4. CASE /\ ~ o.failed /\ ~ (o.phase = "complete" /\ ~ o.failed)
           /\ ~ (o.phase = "disabled" /\ ~ o.failed /\ NothingMissing(o, services))
  BY <1>4, StartupConstants DEF Verdict
<1>5. QED
  BY <1>1, <1>2, <1>3, <1>4

\* What a tick asks of the stack.
LEMMA SentKeeps ==
  ASSUME NEW after, NEW k, ObserverOf(after, elapsed, wire, k), WireOf(elapsed, wire, k),
         elapsed \in Nat,
         \/ after.pending["reset"] \in {observer.pending["reset"], Nil}
         \/ (observer.phase = "reset" /\ after.phase = "resetting_origin"),
         observer.phase = "reset" => ResetsIn(wire) = {} /\ k.resets = 0
  PROVE  /\ ObserverOf(after, elapsed, wire \cup Sent(after), k)
         /\ WireOf(elapsed, wire \cup Sent(after), k)
<1>1. /\ wire \subseteq RequestType /\ k \in StackType
      /\ SentBefore(wire, elapsed) /\ StopsLatch(wire, k) /\ ResetsOnce(wire, k)
      /\ ResetsOf(after, wire, k)
  BY DEF WireOf, ObserverOf
<1>2. \A r \in Sent(after) :
        /\ r \in RequestType /\ r.sent = elapsed /\ r.served = Nil /\ r.value = Nil
        /\ (r.call = "reset" => r = Request("reset") /\ after.pending["reset"] = elapsed
                                /\ observer.pending["reset"] # elapsed)
  <2> SUFFICES ASSUME NEW call \in Rpcs \ Parameters, after.pending[call] = elapsed,
                      observer.pending[call] # elapsed
               PROVE  LET r == Request(call)
                      IN /\ r \in RequestType /\ r.sent = elapsed /\ r.served = Nil /\ r.value = Nil
                         /\ (r.call = "reset" => /\ r = Request("reset")
                                                 /\ after.pending["reset"] = elapsed
                                                 /\ observer.pending["reset"] # elapsed)
    BY DEF Sent
  <2>1. call \in LifecycleNodes \cup PrearmCalls
    BY DEF Rpcs, Polls
  <2>2. QED
    BY <2>1 DEF Request, RequestType, Moments, Words
<1>3. wire \cup Sent(after) \subseteq RequestType
  BY <1>1, <1>2
<1>4. SentBefore(wire \cup Sent(after), elapsed)
  BY <1>1, <1>2 DEF SentBefore
<1>5. StopsLatch(wire \cup Sent(after), k)
  BY <1>1, <1>2, StartupConstants DEF StopsLatch
<1>6. CASE ResetsIn(Sent(after)) = {}
  <2>1. ResetsIn(wire \cup Sent(after)) = ResetsIn(wire)
    BY <1>6 DEF ResetsIn
  <2>2. QED
    BY <1>1, <1>3, <1>4, <1>5, <2>1 DEF ObserverOf, WireOf, ResetsOf, ResetsOnce
<1>7. CASE ResetsIn(Sent(after)) # {}
  <2>1. PICK r \in Sent(after) : r.call = "reset"
    BY <1>7 DEF ResetsIn
  <2>2. after.pending["reset"] = elapsed /\ observer.pending["reset"] # elapsed
    BY <1>2, <2>1
  <2>3. observer.phase = "reset" /\ after.phase = "resetting_origin"
    BY <2>2, StartupConstants
  <2>4. ResetsIn(wire) = {} /\ k.resets = 0
    BY <2>3
  <2>5. \A s \in ResetsIn(wire \cup Sent(after)) : s = Request("reset") /\ s.served = Nil
    BY <1>2, <2>4 DEF ResetsIn
  <2>6. ResetsOnce(wire \cup Sent(after), k)
    BY <2>4, <2>5 DEF ResetsOnce
  <2>7. ResetsOf(after, wire \cup Sent(after), k)
    BY <2>3, <2>4 DEF ResetsOf
  <2>8. QED
    BY <1>1, <1>3, <1>4, <1>5, <2>6, <2>7 DEF ObserverOf, WireOf
<1>8. QED
  BY <1>6, <1>7

\* A tick keeps the invariant and what is known.
LEMMA TickKeeps ==
  ASSUME StartupInvariant, NEW services \in {"absent", "broken", "ready"}, OnTick(services)
  PROVE  StartupInvariant' /\ observer'.known = observer.known
<1>1. /\ elapsed \in Nat /\ ObserverOf(observer, elapsed, wire, stack)
      /\ ExitOf(observer) /\ WireOf(elapsed, wire, stack)
  BY StartupInvariantIs
<1> DEFINE polled == IF PollIsDue THEN Polled(observer, services) ELSE observer
           after == Prearmed(polled, services)
           told == [after EXCEPT !.exit = Verdict(after, services)]
<1>2. /\ observer' = told /\ wire' = wire \cup Sent(after)
      /\ UNCHANGED <<elapsed, stack>> /\ observer.exit = Nil
  BY DEF OnTick
<1>3. /\ ObserverOf(polled, elapsed, wire, stack) /\ polled.known = observer.known
      /\ polled.phase = observer.phase /\ polled.pending["reset"] = observer.pending["reset"]
  BY <1>1, PolledKeeps
<1> HIDE DEF polled
<1>4. /\ ObserverOf(after, elapsed, wire, stack) /\ after.known = polled.known
      /\ after.pending["reset"] \in {polled.pending["reset"], Nil}
         \/ (polled.phase = "reset" /\ after.phase = "resetting_origin")
  BY <1>1, <1>3, PrearmedKeeps
<1> HIDE DEF after
<1>5. observer.phase = "reset" => ResetsIn(wire) = {} /\ stack.resets = 0
  BY <1>1 DEF ObserverOf, ResetsOf
<1>6. /\ ObserverOf(after, elapsed, wire \cup Sent(after), stack)
      /\ WireOf(elapsed, wire \cup Sent(after), stack)
  BY <1>1, <1>3, <1>4, <1>5, SentKeeps
<1>7. Verdict(after, services) \in {Nil, 0, 1}
  BY VerdictIsOfPhase
<1>8. /\ told \in ObserverType /\ told.known = after.known /\ told.pending = after.pending
      /\ told.phase = after.phase /\ told.exit = Verdict(after, services)
  BY <1>4, <1>7 DEF ObserverOf, ObserverType
<1> HIDE DEF told
<1>9. ObserverOf(told, elapsed, wire \cup Sent(after), stack)
  BY <1>6, <1>8, SameObserverKeeps
<1>10. ExitOf(told)
  BY <1>8, VerdictIsOfPhase DEF ExitOf
<1>11. QED
  BY <1>1, <1>2, <1>3, <1>4, <1>6, <1>8, <1>9, <1>10, StartupInvariantNext

-----------------------------------------------------------------------------
(* The stack. *)

\* A request that is served: a stop that is granted latches, a reset is done.
LEMMA ServeKeeps ==
  ASSUME StartupInvariant, NEW request \in wire, Serve(request)
  PROVE  StartupInvariant'
<1>1. /\ elapsed \in Nat /\ ObserverOf(observer, elapsed, wire, stack)
      /\ ExitOf(observer) /\ WireOf(elapsed, wire, stack)
  BY StartupInvariantIs
<1>2. /\ wire \subseteq RequestType /\ stack \in StackType
      /\ SentBefore(wire, elapsed) /\ StopsLatch(wire, stack) /\ ResetsOnce(wire, stack)
      /\ observer \in ObserverType /\ KnownBefore(observer, elapsed) /\ PrearmPending(observer)
      /\ PhaseLatched(observer, stack) /\ ResetsOf(observer, wire, stack)
  BY <1>1 DEF WireOf, ObserverOf
<1>3. PICK value \in {"yes", "no"} :
        /\ wire' = (wire \ {request}) \cup {[request EXCEPT !.served = elapsed, !.value = value]}
        /\ stack' = [stack EXCEPT
             !.latched = @ \/ (request.call = "emergency_stop" /\ value = "yes"),
             !.resets = IF request.call = "reset" THEN @ + 1 ELSE @]
  BY DEF Serve
<1>4. request.served = Nil /\ UNCHANGED <<elapsed, observer>>
  BY DEF Serve
<1> DEFINE a == [request EXCEPT !.served = elapsed, !.value = value]
<1>5. /\ a \in RequestType /\ a.call = request.call /\ a.sent = request.sent
      /\ a.served = elapsed /\ a.value = value /\ request.sent <= elapsed
  BY <1>1, <1>2 DEF RequestType, SentBefore, Moments, Words
<1>6. stack' \in StackType /\ (stack.latched => stack'.latched)
  <2> DEFINE L == stack.latched \/ (request.call = "emergency_stop" /\ value = "yes")
             R == IF request.call = "reset" THEN stack.resets + 1 ELSE stack.resets
  <2>1. stack' = [stack EXCEPT !.latched = L, !.resets = R]
    BY <1>2, <1>3 DEF StackType
  <2>2. L \in BOOLEAN /\ R \in Nat /\ (stack.latched => L)
    BY <1>2 DEF StackType
  <2> HIDE DEF L, R
  <2>3. QED
    BY <1>2, <2>1, <2>2 DEF StackType
<1>7. request.call = "emergency_stop" /\ value = "yes" => stack'.latched
  BY <1>2, <1>3 DEF StackType
<1>8. stack'.resets = IF request.call = "reset" THEN stack.resets + 1 ELSE stack.resets
  BY <1>2, <1>3 DEF StackType
<1>9. wire' = (wire \ {request}) \cup {a}
  BY <1>3
<1> HIDE DEF a
<1>10. SentBefore(wire', elapsed)
  BY <1>1, <1>2, <1>5, <1>9 DEF SentBefore
<1>11. StopsLatch(wire', stack')
  BY <1>2, <1>5, <1>6, <1>7, <1>9 DEF StopsLatch
<1>12. ResetsOnce(wire', stack') /\ ResetsOf(observer, wire', stack')
  <2>1. CASE request.call = "reset"
    <3>1. request \in ResetsIn(wire)
      BY <2>1 DEF ResetsIn
    <3>2. ResetsIn(wire) = {request} /\ stack.resets = 0
      BY <1>2, <1>4, <3>1 DEF ResetsOnce
    <3>3. ResetsIn(wire') = {a}
      BY <1>5, <1>9, <2>1, <3>2 DEF ResetsIn
    <3>4. stack'.resets = 1 /\ a.served # Nil
      BY <1>1, <1>5, <1>8, <2>1, <3>2, StartupConstants
    <3>5. QED
      BY <1>2, <3>2, <3>3, <3>4 DEF ResetsOnce, ResetsOf
  <2>2. CASE request.call # "reset"
    <3>1. ResetsIn(wire') = ResetsIn(wire) /\ stack'.resets = stack.resets
      BY <1>5, <1>8, <1>9, <2>2 DEF ResetsIn
    <3>2. QED
      BY <1>2, <3>1 DEF ResetsOnce, ResetsOf
  <2>3. QED
    BY <2>1, <2>2
<1>13. PhaseLatched(observer, stack')
  BY <1>2, <1>6 DEF PhaseLatched
<1>14. wire' \subseteq RequestType
  BY <1>2, <1>5, <1>9
<1>15. QED
  BY <1>1, <1>2, <1>4, <1>6, <1>10, <1>11, <1>12, <1>13, <1>14, StartupInvariantNext
  DEF ObserverOf, WireOf

\* Every step keeps the invariant; what is known of a node gets newer.
LEMMA StartupKeeps ==
  StartupInvariant /\ [StartupNext]_startupVars
  => /\ StartupInvariant'
     /\ \A node \in LifecycleNodes :
          observer.known[node].served # Nil
          => observer'.known[node].served >= observer.known[node].served
<1> SUFFICES ASSUME StartupInvariant, [StartupNext]_startupVars
             PROVE  /\ StartupInvariant'
                    /\ \A node \in LifecycleNodes :
                         observer.known[node].served # Nil
                         => observer'.known[node].served >= observer.known[node].served
  OBVIOUS
<1>1. /\ elapsed \in Nat /\ ObserverOf(observer, elapsed, wire, stack)
      /\ ExitOf(observer) /\ WireOf(elapsed, wire, stack)
  BY StartupInvariantIs
<1>2. observer \in ObserverType
  BY <1>1 DEF ObserverOf
<1>3. \A node \in LifecycleNodes :
        observer.known[node].served # Nil => observer.known[node].served \in Nat
  BY <1>2, StartupConstants DEF ObserverType, Moments
<1>4. ASSUME NEW o, observer' = o, o \in ObserverType, o.known = observer.known,
             o.pending = observer.pending, o.phase = observer.phase,
             o.exit \in {observer.exit, 1}, UNCHANGED <<elapsed, wire, stack>>
      PROVE  /\ StartupInvariant'
             /\ \A node \in LifecycleNodes :
                  observer.known[node].served # Nil
                  => observer'.known[node].served >= observer.known[node].served
  <2>1. ObserverOf(o, elapsed, wire, stack)
    BY <1>1, <1>4, SameObserverKeeps
  <2>2. ExitOf(o)
    BY <1>1, <1>4 DEF ExitOf
  <2>3. StartupInvariant'
    BY <1>1, <1>4, <2>1, <2>2, StartupInvariantNext
  <2>4. QED
    BY <1>3, <1>4, <2>3
<1>5. ASSUME NEW answer \in wire, AnswerArrives(answer)
      PROVE  /\ StartupInvariant'
             /\ \A node \in LifecycleNodes :
                  observer.known[node].served # Nil
                  => observer'.known[node].served >= observer.known[node].served
  <2>1. /\ wire' = wire \ {answer} /\ UNCHANGED <<elapsed, stack>> /\ answer.served # Nil
        /\ observer.exit = Nil
        /\ observer' = IF TakeCurrentRpc(observer, answer) THEN Stored(observer, answer) ELSE observer
    BY <1>5 DEF AnswerArrives
  <2>2. /\ ObserverOf(observer', elapsed, wire, stack) /\ observer'.exit = Nil
        /\ \A node \in LifecycleNodes :
             observer.known[node].served # Nil
             => observer'.known[node].served >= observer.known[node].served
    BY <1>1, <1>3, <2>1, StoredKeeps
  <2>3. ObserverOf(observer', elapsed, wire', stack) /\ WireOf(elapsed, wire', stack)
    BY <1>1, <2>1, <2>2, FewerRequestsKeep
  <2>4. ExitOf(observer')
    BY <2>2, StartupConstants DEF ExitOf
  <2>5. QED
    BY <1>1, <2>1, <2>2, <2>3, <2>4, StartupInvariantNext
<1>6. ASSUME NEW target \in Parameters, ParametersArrive(target)
      PROVE  /\ StartupInvariant'
             /\ \A node \in LifecycleNodes :
                  observer.known[node].served # Nil
                  => observer'.known[node].served >= observer.known[node].served
  <2>1. PICK value \in {Nil, "yes"} :
          observer' = [observer EXCEPT !.pending[target] = Nil,
                         !.known[target].value = IF value = Nil THEN @ ELSE value]
    BY <1>6 DEF ParametersArrive
  <2>2. UNCHANGED <<elapsed, wire, stack>> /\ observer.exit = Nil
    BY <1>6 DEF ParametersArrive
  <2> DEFINE told == [observer.known[target] EXCEPT !.value = IF value = Nil THEN @ ELSE value]
             P == [observer.pending EXCEPT ![target] = Nil]
             K == [observer.known EXCEPT ![target] = told]
             o == [observer EXCEPT !.pending = P, !.known = K]
  <2>3. target \in Polls /\ target \in Rpcs /\ target \notin LifecycleNodes
        /\ target # "emergency_stop" /\ target # "reset"
    BY StartupConstants
  <2>4. observer' = o
    BY <1>2, <2>1, <2>3 DEF ObserverType
  <2>5. told \in [value: Words, served: Moments]
    BY <1>2, <2>3 DEF ObserverType, Words
  <2> HIDE DEF told
  <2>6. /\ P \in [Rpcs -> Moments] /\ K \in [Polls -> [value: Words, served: Moments]]
        /\ \A node \in LifecycleNodes : P[node] = observer.pending[node] /\ K[node] = observer.known[node]
        /\ P["emergency_stop"] = observer.pending["emergency_stop"]
        /\ P["reset"] = observer.pending["reset"]
    BY <1>2, <2>3, <2>5, StartupConstants DEF ObserverType, Moments
  <2> HIDE DEF P, K
  <2>7. /\ o \in ObserverType /\ o.pending = P /\ o.known = K /\ o.phase = observer.phase
        /\ o.exit = observer.exit
    BY <1>2, <2>6 DEF ObserverType
  <2> HIDE DEF o
  <2>8. ObserverOf(o, elapsed, wire, stack)
    BY <1>1, <2>6, <2>7 DEF ObserverOf, KnownBefore, PrearmPending, PhaseLatched, ResetsOf
  <2>9. ExitOf(o)
    BY <1>1, <2>7 DEF ExitOf
  <2>10. StartupInvariant'
    BY <1>1, <2>2, <2>4, <2>8, <2>9, StartupInvariantNext
  <2>11. QED
    BY <1>3, <2>4, <2>6, <2>7, <2>10
<1>7. ASSUME NEW input \in Inputs, InputArrives(input)
      PROVE  /\ StartupInvariant'
             /\ \A node \in LifecycleNodes :
                  observer.known[node].served # Nil
                  => observer'.known[node].served >= observer.known[node].served
  <2> DEFINE o == [observer EXCEPT !.heard[input] = elapsed]
  <2>1. observer' = o /\ UNCHANGED <<elapsed, wire, stack>>
    BY <1>7 DEF InputArrives
  <2>2. /\ o \in ObserverType /\ o.known = observer.known /\ o.pending = observer.pending
        /\ o.phase = observer.phase /\ o.exit = observer.exit
    BY <1>1, <1>2 DEF ObserverType, Moments
  <2> HIDE DEF o
  <2>3. QED
    BY <1>4, <2>1, <2>2
<1>8. ASSUME NEW quiet \in BOOLEAN, StatusArrives(quiet)
      PROVE  /\ StartupInvariant'
             /\ \A node \in LifecycleNodes :
                  observer.known[node].served # Nil
                  => observer'.known[node].served >= observer.known[node].served
  <2> DEFINE o == [observer EXCEPT !.quiet = quiet]
  <2>1. observer' = o /\ UNCHANGED <<elapsed, wire, stack>>
    BY <1>8 DEF StatusArrives
  <2>2. /\ o \in ObserverType /\ o.known = observer.known /\ o.pending = observer.pending
        /\ o.phase = observer.phase /\ o.exit = observer.exit
    BY <1>2 DEF ObserverType
  <2> HIDE DEF o
  <2>3. QED
    BY <1>4, <2>1, <2>2
<1>9. ASSUME NEW scope \in Scopes, CostmapArrives(scope)
      PROVE  /\ StartupInvariant'
             /\ \A node \in LifecycleNodes :
                  observer.known[node].served # Nil
                  => observer'.known[node].served >= observer.known[node].served
  <2> DEFINE o == [observer EXCEPT !.costmaps = @ \cup {scope}]
  <2>1. observer' = o /\ UNCHANGED <<elapsed, wire, stack>>
    BY <1>9 DEF CostmapArrives
  <2>2. /\ o \in ObserverType /\ o.known = observer.known /\ o.pending = observer.pending
        /\ o.phase = observer.phase /\ o.exit = observer.exit
    BY <1>2 DEF ObserverType
  <2> HIDE DEF o
  <2>3. QED
    BY <1>4, <2>1, <2>2
<1>10. ASSUME LaunchExited
       PROVE  /\ StartupInvariant'
              /\ \A node \in LifecycleNodes :
                   observer.known[node].served # Nil
                   => observer'.known[node].served >= observer.known[node].served
  <2> DEFINE o == [observer EXCEPT !.exit = 1]
  <2>1. observer' = o /\ UNCHANGED <<elapsed, wire, stack>>
    BY <1>10 DEF LaunchExited
  <2>2. /\ o \in ObserverType /\ o.known = observer.known /\ o.pending = observer.pending
        /\ o.phase = observer.phase /\ o.exit = 1
    BY <1>2 DEF ObserverType
  <2> HIDE DEF o
  <2>3. QED
    BY <1>4, <2>1, <2>2
<1>11. ASSUME NEW services \in {"absent", "broken", "ready"}, OnTick(services)
       PROVE  /\ StartupInvariant'
              /\ \A node \in LifecycleNodes :
                   observer.known[node].served # Nil
                   => observer'.known[node].served >= observer.known[node].served
  BY <1>3, <1>11, TickKeeps
<1>12. ASSUME NEW request \in wire, Serve(request)
       PROVE  /\ StartupInvariant'
              /\ \A node \in LifecycleNodes :
                   observer.known[node].served # Nil
                   => observer'.known[node].served >= observer.known[node].served
  <2>1. StartupInvariant'
    BY <1>12, ServeKeeps
  <2>2. UNCHANGED observer
    BY <1>12 DEF Serve
  <2>3. QED
    BY <1>3, <2>1, <2>2
<1>13. ASSUME Elapse
       PROVE  /\ StartupInvariant'
              /\ \A node \in LifecycleNodes :
                   observer.known[node].served # Nil
                   => observer'.known[node].served >= observer.known[node].served
  <2>1. elapsed' = elapsed + 1 /\ UNCHANGED <<observer, wire, stack>>
    BY <1>13 DEF Elapse
  <2>2. elapsed' \in Nat /\ elapsed < elapsed'
    BY <1>1, <2>1
  <2>3. SentBefore(wire, elapsed')
    <3>1. \A r \in wire : r.sent \in Nat /\ (r.served # Nil => r.served \in Nat)
      BY <1>1 DEF WireOf, RequestType, Moments
    <3>2. QED
      BY <1>1, <2>2, <3>1 DEF WireOf, SentBefore
  <2>4. KnownBefore(observer, elapsed')
    BY <1>1, <1>3, <2>2 DEF ObserverOf, KnownBefore
  <2>5. StartupInvariant'
    BY <1>1, <2>1, <2>2, <2>3, <2>4, StartupInvariantNext DEF ObserverOf, WireOf
  <2>6. QED
    BY <1>3, <2>1, <2>5
<1>14. CASE UNCHANGED startupVars
  <2>1. UNCHANGED <<elapsed, observer, wire, stack>>
    BY <1>14 DEF startupVars
  <2>2. StartupInvariant'
    BY <1>1, <2>1, StartupInvariantNext
  <2>3. QED
    BY <1>3, <2>1, <2>2
<1>15. QED
  BY <1>5, <1>6, <1>7, <1>8, <1>9, <1>10, <1>11, <1>12, <1>13, <1>14
  DEF StartupNext, ObserverNext, StackNext

\* The startup observer: types, the order of the moments, and the prearm sequence.
THEOREM StartupInvariantHolds == StartupSpec => []StartupInvariant
  BY StartupStarts, StartupKeeps, PTL DEF StartupSpec

\* The origin is reset at most once, only behind a latched stop, and a prearm that says
\* it is ready has done both.
THEOREM PrearmAlwaysEarned == StartupSpec => []PrearmIsEarned
<1>1. StartupInvariant => PrearmIsEarned
  <2> SUFFICES ASSUME StartupInvariant PROVE PrearmIsEarned
    OBVIOUS
  <2>1. /\ ObserverOf(observer, elapsed, wire, stack) /\ ExitOf(observer)
        /\ WireOf(elapsed, wire, stack)
    BY StartupInvariantIs
  <2>2. stack.resets <= 1
    BY <2>1 DEF WireOf, ResetsOnce
  <2>3. stack.resets = 1 => stack.latched
    BY <2>1 DEF ObserverOf, ResetsOf, PhaseLatched
  <2>4. observer.exit = 0 /\ observer.phase # "disabled" => stack.latched /\ stack.resets = 1
    BY <2>1 DEF ObserverOf, ResetsOf, PhaseLatched, ExitOf
  <2>5. QED
    BY <2>2, <2>3, <2>4 DEF PrearmIsEarned
<1>2. QED
  BY <1>1, StartupInvariantHolds, PTL

\* What the observer knows of a node is never replaced by an older answer.
THEOREM KnowledgeAlwaysMovesForward == StartupSpec => KnowledgeMovesForward
<1>1. StartupInvariant /\ [StartupNext]_startupVars
      => [\A node \in LifecycleNodes :
            LET before == observer.known[node].served
                after == observer'.known[node].served
            IN before # Nil /\ after # Nil => after >= before]_startupVars
  BY StartupKeeps
<1>2. QED
  BY <1>1, StartupInvariantHolds, PTL DEF StartupSpec, KnowledgeMovesForward

-----------------------------------------------------------------------------
(* The preflight of the simulation. *)

\* The constants are numbers.
LEMMA PreflightConstants ==
  /\ MinOdomSamples \in Nat \ {0} /\ MinScanSamples \in Nat \ {0} /\ MinStreamSpan \in Nat \ {0}
  /\ MaxSensorAge \in Nat /\ MaxScanOdomSkew \in Nat /\ SimHorizon \in Nat
  BY SimPreflightAssumption

\* The stamps up to one of them are finitely many, and more of them are not fewer.
LEMMA StampsAreFinite ==
  ASSUME NEW stamps \in SUBSET Stamps, NEW some \in SUBSET stamps
  PROVE  /\ IsFiniteSet(some) /\ Cardinality(some) \in Nat
         /\ Cardinality(some) <= Cardinality(stamps)
<1>1. IsFiniteSet(Stamps)
  BY PreflightConstants, FS_Interval DEF Stamps
<1>2. IsFiniteSet(stamps)
  BY <1>1, FS_Subset
<1>3. IsFiniteSet(some) /\ Cardinality(some) <= Cardinality(stamps)
  BY <1>2, FS_Subset
<1>4. QED
  BY <1>3, FS_CardinalityType

\* A sample that is taken, of one more stamp heard, keeps the stream in order.
LEMMA TakenFollows ==
  ASSUME NEW stream \in Stream, NEW stamps \in SUBSET Stamps, NEW stamp \in Stamps,
         Begun(stream, stamps)
  PROVE  /\ Taken(stream, stamp) \in Stream
         /\ Begun(Taken(stream, stamp), stamps \cup {stamp})
         /\ Counted(stream, stamps) => Counted(Taken(stream, stamp), stamps \cup {stamp})
<1> DEFINE more == stamps \cup {stamp}
           Upto(set, last) == {s \in set : s <= last}
<1>1. stamp \in Nat \ {0} /\ stamps \subseteq Nat \ {0} /\ more \in SUBSET Stamps
  BY PreflightConstants DEF Stamps
<1>2. CASE stamp <= stream.last
  <2>1. Taken(stream, stamp) = stream
    BY <1>2 DEF Taken
  <2>2. Begun(stream, more)
    BY DEF Begun
  <2>3. /\ Upto(stamps, stream.last) \in SUBSET Upto(more, stream.last)
        /\ Upto(more, stream.last) \in SUBSET Stamps
    BY <1>1
  <2>4. /\ Cardinality(Upto(stamps, stream.last)) <= Cardinality(Upto(more, stream.last))
        /\ Cardinality(Upto(stamps, stream.last)) \in Nat
        /\ Cardinality(Upto(more, stream.last)) \in Nat
    BY <2>3, StampsAreFinite
  <2>5. Counted(stream, stamps) => Counted(stream, more)
    BY <2>4 DEF Counted, Stream
  <2>6. QED
    BY <2>1, <2>2, <2>5
<1>3. CASE stamp > stream.last
  <2> DEFINE after == [first |-> IF stream.first = 0 THEN stamp ELSE stream.first,
                       last |-> stamp, count |-> stream.count + 1]
  <2>1. Taken(stream, stamp) = after
    BY <1>1, <1>3 DEF Taken, Stream
  <2>2. after \in Stream /\ after.count # 0
    BY <1>1 DEF Stream
  <2>3. after.first \in more /\ after.last \in more
    BY <1>1 DEF Begun, Stream
  <2>4. Begun(after, more)
    BY <2>2, <2>3 DEF Begun
  <2>5. /\ Upto(stamps, stream.last) \in SUBSET Stamps
        /\ Upto(stamps, stream.last) \cup {stamp} \in SUBSET Upto(more, stamp)
        /\ Upto(more, stamp) \in SUBSET Stamps /\ stamp \notin Upto(stamps, stream.last)
    <3>1. stream.last \in Nat /\ stamp \in Nat /\ \A s \in stamps : s \in Nat
      BY <1>1 DEF Stream
    <3>2. Upto(stamps, stream.last) \subseteq Upto(more, stamp)
      <4>1. ASSUME NEW s \in stamps, s <= stream.last PROVE s <= stamp
        BY <1>3, <3>1, <4>1
      <4>2. QED
        BY <4>1
    <3>3. stamp \in Upto(more, stamp)
      BY <3>1
    <3>4. stamp \notin Upto(stamps, stream.last)
      BY <1>3, <3>1
    <3>5. Upto(stamps, stream.last) \subseteq Stamps /\ Upto(more, stamp) \subseteq Stamps
      BY <1>1
    <3> HIDE DEF Upto
    <3>6. QED
      BY <3>2, <3>3, <3>4, <3>5
  <2>6. /\ IsFiniteSet(Upto(stamps, stream.last)) /\ Cardinality(Upto(stamps, stream.last)) \in Nat
        /\ Cardinality(Upto(stamps, stream.last) \cup {stamp}) <= Cardinality(Upto(more, stamp))
        /\ Cardinality(Upto(more, stamp)) \in Nat
    BY <2>5, StampsAreFinite
  <2>7. Cardinality(Upto(stamps, stream.last) \cup {stamp})
        = Cardinality(Upto(stamps, stream.last)) + 1
    BY <2>5, <2>6, FS_AddElement
  <2>8. Counted(stream, stamps) => Counted(after, more)
    BY <2>6, <2>7 DEF Counted, Stream
  <2>9. QED
    BY <2>1, <2>2, <2>4, <2>8
<1>4. QED
  BY <1>1, <1>2, <1>3 DEF Stream

\* It holds at the start.
LEMMA PreflightStarts == PreflightInit => PreflightInvariant
<1> SUFFICES ASSUME PreflightInit PROVE PreflightInvariant
  OBVIOUS
<1>1. Nothing \in Stream
  BY DEF Nothing, Stream
<1>2. PreflightTyped
  BY <1>1 DEF PreflightInit, PreflightTyped
<1>3. \A stamps \in SUBSET Stamps : Begun(Nothing, stamps)
  BY DEF Begun, Nothing
<1>4. \A stamps \in SUBSET Stamps : Counted(Nothing, stamps)
  <2> TAKE stamps \in SUBSET Stamps
  <2>1. \A s \in stamps : s \in Nat \ {0}
    BY PreflightConstants DEF Stamps
  <2>2. {s \in stamps : s <= 0} = {}
    BY <2>1
  <2>3. Cardinality({}) = 0
    BY FS_EmptySet
  <2>4. QED
    BY <2>2, <2>3 DEF Counted, Nothing
<1>5. StreamsFollow
  BY <1>3, <1>4 DEF PreflightInit, StreamsFollow, Streams
<1>6. QED
  BY <1>2, <1>5 DEF PreflightInvariant

\* Every step keeps it: a message that is heard, a pose that is published, the end.
LEMMA PreflightKeeps ==
  PreflightInvariant /\ [PreflightNext]_preflightVars => PreflightInvariant'
<1> SUFFICES ASSUME PreflightInvariant, [PreflightNext]_preflightVars
             PROVE  PreflightInvariant'
  OBVIOUS
<1>1. /\ odomRelay \in [last: Nat, twist: {"zero", "measured"}, published: SUBSET Stamps]
      /\ preflight \in [pc: {"wait", "ok", "failed"}, requireTf: BOOLEAN, clock: Nat,
                       advanced: BOOLEAN, odom: Stream, scan: Stream, beams: BOOLEAN, tf: Stream]
      /\ heard \in [Streams -> SUBSET Stamps]
  BY DEF PreflightInvariant, PreflightTyped
<1>2. /\ Begun(preflight.odom, heard["odom"]) /\ Counted(preflight.odom, heard["odom"])
      /\ Begun(preflight.scan, heard["scan"]) /\ Counted(preflight.scan, heard["scan"])
      /\ Begun(preflight.tf, odomRelay.published)
  BY DEF PreflightInvariant, StreamsFollow
<1>3. preflight.pc = "ok" => Ready
  BY DEF PreflightInvariant, StreamsFollow
<1>4. Stamps \subseteq Nat /\ heard["odom"] \in SUBSET Stamps /\ heard["scan"] \in SUBSET Stamps
      /\ odomRelay.published \in SUBSET Stamps
  BY <1>1, PreflightConstants DEF Stamps, Streams
<1>5. ASSUME NEW stamp \in Stamps, NEW whole \in BOOLEAN, PoseCallback(stamp, whole)
      PROVE  PreflightInvariant'
  <2>1. odomRelay' \in [last: Nat, twist: {"zero", "measured"}, published: SUBSET Stamps]
    BY <1>1, <1>4, <1>5 DEF PoseCallback, Twist
  <2>2. odomRelay.published \subseteq odomRelay'.published
    BY <1>1, <1>5 DEF PoseCallback
  <2>3. UNCHANGED <<preflight, heard>> /\ preflight.pc = "wait"
    BY <1>5 DEF PoseCallback
  <2>4. Begun(preflight.tf, odomRelay'.published)
    BY <1>2, <2>2 DEF Begun
  <2>5. QED
    BY <1>1, <1>2, <2>1, <2>3, <2>4 DEF PreflightInvariant, PreflightTyped, StreamsFollow
<1>6. ASSUME NEW stamp \in Stamps, ClockCallback(stamp) PROVE PreflightInvariant'
  BY <1>1, <1>2, <1>4, <1>6
  DEF ClockCallback, Hears, Waits, PreflightInvariant, PreflightTyped, StreamsFollow
<1>7. ASSUME NEW stamp \in Stamps, NEW beams \in BOOLEAN, ScanCallback(stamp, beams)
      PROVE  PreflightInvariant'
  <2> DEFINE after == Taken(preflight.scan, stamp)
  <2>1. /\ after \in Stream /\ Begun(after, heard["scan"] \cup {stamp})
        /\ Counted(after, heard["scan"] \cup {stamp})
    BY <1>1, <1>2, <1>4, TakenFollows
  <2>2. /\ preflight' = [preflight EXCEPT !.scan = after,
                           !.beams = IF stamp > preflight.scan.last THEN beams ELSE @]
        /\ heard' = [heard EXCEPT !["scan"] = @ \cup {stamp}]
        /\ UNCHANGED odomRelay /\ preflight.pc = "wait"
    BY <1>7 DEF ScanCallback, Hears, Waits
  <2> HIDE DEF after
  <2>3. /\ preflight'.scan = after /\ preflight'.odom = preflight.odom
        /\ preflight'.tf = preflight.tf /\ preflight'.pc = "wait"
    BY <1>1, <2>2
  <2>4. heard'["scan"] = heard["scan"] \cup {stamp} /\ heard'["odom"] = heard["odom"]
    BY <1>1, <2>2 DEF Streams
  <2>5. PreflightTyped'
    BY <1>1, <1>4, <2>1, <2>2 DEF PreflightTyped, Streams
  <2>6. StreamsFollow'
    BY <1>2, <2>1, <2>2, <2>3, <2>4 DEF StreamsFollow
  <2>7. QED
    BY <2>5, <2>6 DEF PreflightInvariant
<1>8. ASSUME NEW stamp \in odomRelay.published, OdomCallback(stamp) PROVE PreflightInvariant'
  <2> DEFINE after == Taken(preflight.odom, stamp)
  <2>1. /\ after \in Stream /\ Begun(after, heard["odom"] \cup {stamp})
        /\ Counted(after, heard["odom"] \cup {stamp})
    BY <1>1, <1>2, <1>4, TakenFollows
  <2>2. /\ preflight' = [preflight EXCEPT !.odom = after]
        /\ heard' = [heard EXCEPT !["odom"] = @ \cup {stamp}]
        /\ UNCHANGED odomRelay /\ preflight.pc = "wait"
    BY <1>8 DEF OdomCallback, Hears, Waits
  <2> HIDE DEF after
  <2>3. /\ preflight'.odom = after /\ preflight'.scan = preflight.scan
        /\ preflight'.tf = preflight.tf /\ preflight'.pc = "wait"
    BY <1>1, <2>2
  <2>4. heard'["odom"] = heard["odom"] \cup {stamp} /\ heard'["scan"] = heard["scan"]
    BY <1>1, <2>2 DEF Streams
  <2>5. PreflightTyped'
    BY <1>1, <1>4, <2>1, <2>2 DEF PreflightTyped, Streams
  <2>6. StreamsFollow'
    BY <1>2, <2>1, <2>2, <2>3, <2>4 DEF StreamsFollow
  <2>7. QED
    BY <2>5, <2>6 DEF PreflightInvariant
<1>9. ASSUME NEW stamp \in odomRelay.published, TransformHeard(stamp) PROVE PreflightInvariant'
  <2> DEFINE after == Taken(preflight.tf, stamp)
  <2>1. /\ after \in Stream /\ Begun(after, odomRelay.published \cup {stamp})
        /\ odomRelay.published \cup {stamp} = odomRelay.published
    BY <1>1, <1>2, <1>4, TakenFollows
  <2>2. /\ preflight' = [preflight EXCEPT !.tf = after]
        /\ UNCHANGED <<odomRelay, heard>> /\ preflight.pc = "wait"
    BY <1>9 DEF TransformHeard, Hears, Waits
  <2> HIDE DEF after
  <2>3. /\ preflight'.tf = after /\ preflight'.scan = preflight.scan
        /\ preflight'.odom = preflight.odom /\ preflight'.pc = "wait"
    BY <1>1, <2>2
  <2>4. PreflightTyped'
    BY <1>1, <2>1, <2>2 DEF PreflightTyped
  <2>5. StreamsFollow'
    BY <1>2, <2>1, <2>2, <2>3 DEF StreamsFollow
  <2>6. QED
    BY <2>4, <2>5 DEF PreflightInvariant
<1>10. ASSUME NEW code \in {"ok", "failed"}, PreflightEnds(code) PROVE PreflightInvariant'
  <2>1. /\ preflight' = [preflight EXCEPT !.pc = code] /\ UNCHANGED <<odomRelay, heard>>
        /\ (code = "ok" => Ready)
    BY <1>10 DEF PreflightEnds
  <2>2. Ready' <=> Ready
    BY <1>1, <2>1 DEF Ready, TfAvailable
  <2>3. QED
    BY <1>1, <1>2, <2>1, <2>2 DEF PreflightInvariant, PreflightTyped, StreamsFollow
<1>11. CASE UNCHANGED preflightVars
  <2>1. UNCHANGED <<odomRelay, preflight, heard>>
    BY <1>11 DEF preflightVars
  <2>2. Ready' <=> Ready
    BY <2>1 DEF Ready, TfAvailable
  <2>3. QED
    BY <1>1, <1>2, <1>3, <2>1, <2>2 DEF PreflightInvariant, PreflightTyped, StreamsFollow
<1>12. QED
  BY <1>5, <1>6, <1>7, <1>8, <1>9, <1>10, <1>11 DEF PreflightNext

\* The preflight of the simulation counts what it heard, and ends when it is ready.
THEOREM PreflightInvariantHolds == PreflightSpec => []PreflightInvariant
  BY PreflightStarts, PreflightKeeps, PTL DEF PreflightSpec

\* A stream long enough, heard lately, is sustained by what was heard of it.
LEMMA CountedIsSustained ==
  ASSUME NEW stream \in Stream, NEW stamps \in SUBSET Stamps, NEW least \in Nat \ {0},
         NEW clock \in Nat, Begun(stream, stamps), Counted(stream, stamps),
         stream.count >= least, stream.last - stream.first >= MinStreamSpan,
         clock - stream.last \in 0 .. MaxSensorAge
  PROVE  Sustained(stamps, least, clock) /\ stream.last \in stamps
<1>1. stream.first \in stamps /\ stream.last \in stamps
  BY DEF Begun, Stream
<1>2. {s \in stamps : s <= stream.last} \in SUBSET stamps
  OBVIOUS
<1>3. Cardinality({s \in stamps : s <= stream.last}) \in Nat
  BY <1>2, StampsAreFinite
<1>4. Cardinality({s \in stamps : s <= stream.last}) >= least
  BY <1>3 DEF Counted, Stream
<1>5. QED
  BY <1>1, <1>4 DEF Sustained

\* A preflight that succeeds has seen two streams of different moments, that agree with
\* its clock; where the transform is required, the newest scan lies between two
\* transforms that were published.
LEMMA ReadyHasSeenStreams == PreflightInvariant => PreflightSawStreams
<1> SUFFICES ASSUME PreflightInvariant, preflight.pc = "ok"
             PROVE  /\ Sustained(heard["odom"], MinOdomSamples, preflight.clock)
                    /\ Sustained(heard["scan"], MinScanSamples, preflight.clock)
                    /\ preflight.requireTf =>
                         \E s \in heard["scan"] : \E a, b \in odomRelay.published :
                           a <= s /\ s <= b /\ preflight.clock - s \in 0 .. MaxSensorAge
  BY DEF PreflightSawStreams
<1>1. /\ odomRelay.published \in SUBSET Stamps
      /\ preflight.clock \in Nat /\ preflight.requireTf \in BOOLEAN
      /\ preflight.odom \in Stream /\ preflight.scan \in Stream /\ preflight.tf \in Stream
      /\ heard["odom"] \in SUBSET Stamps /\ heard["scan"] \in SUBSET Stamps
  BY DEF PreflightInvariant, PreflightTyped, Streams
<1>2. /\ Begun(preflight.odom, heard["odom"]) /\ Counted(preflight.odom, heard["odom"])
      /\ Begun(preflight.scan, heard["scan"]) /\ Counted(preflight.scan, heard["scan"])
      /\ Begun(preflight.tf, odomRelay.published)
  BY DEF PreflightInvariant, StreamsFollow
<1>3. /\ preflight.odom.count >= MinOdomSamples /\ preflight.scan.count >= MinScanSamples
      /\ preflight.odom.last - preflight.odom.first >= MinStreamSpan
      /\ preflight.scan.last - preflight.scan.first >= MinStreamSpan
      /\ preflight.clock - preflight.odom.last \in 0 .. MaxSensorAge
      /\ preflight.clock - preflight.scan.last \in 0 .. MaxSensorAge
      /\ TfAvailable
  BY DEF PreflightInvariant, StreamsFollow, Ready
<1>4. Sustained(heard["odom"], MinOdomSamples, preflight.clock)
  BY <1>1, <1>2, <1>3, PreflightConstants, CountedIsSustained
<1>5. /\ Sustained(heard["scan"], MinScanSamples, preflight.clock)
      /\ preflight.scan.last \in heard["scan"]
  BY <1>1, <1>2, <1>3, PreflightConstants, CountedIsSustained
<1>6. ASSUME preflight.requireTf
      PROVE  \E s \in heard["scan"] : \E a, b \in odomRelay.published :
               a <= s /\ s <= b /\ preflight.clock - s \in 0 .. MaxSensorAge
  <2>1. preflight.tf.first <= preflight.scan.last /\ preflight.scan.last <= preflight.tf.last
    BY <1>1, <1>3, <1>6 DEF TfAvailable, Stream
  <2>2. preflight.scan.last > 0
    BY <1>1, <1>5, PreflightConstants DEF Stamps
  <2>3. preflight.tf.first \in odomRelay.published /\ preflight.tf.last \in odomRelay.published
    BY <1>1, <1>2, <2>1, <2>2 DEF Begun, Stream
  <2>4. QED
    BY <1>3, <1>5, <2>1, <2>3
<1>7. QED
  BY <1>4, <1>5, <1>6

\* Nav2 of the simulation starts behind two streams that were really seen.
THEOREM PreflightAlwaysSawStreams == PreflightSpec => []PreflightSawStreams
  BY PreflightInvariantHolds, ReadyHasSeenStreams, PTL

-----------------------------------------------------------------------------
(* A bring-up of the simulation.  Its invariant again, part by part, as predicates of
   the launch service l, its processes p, the helper s, the nodes y, the runner t, the
   goals g and the results r. *)

LaunchType ==
  [params: {"none", "whole", "removed"}, static_tf: BOOLEAN, nav2_started: BOOLEAN,
   timers: SUBSET Gates, shutdown: BOOLEAN]
ReachedIn(gate, l, p) == p[gate] # "none" \/ gate \in l.timers
GatesOf(l, p) ==
  /\ l \in LaunchType /\ p \in [Gates -> Codes]
  /\ \A gate \in l.timers : p[gate] = "none"
  /\ p["cleanup"] # "none" => l.params # "none"
  /\ l.params = "removed" => l.shutdown
  /\ "cleanup" \notin l.timers /\ "sensor_preflight" \notin l.timers
  /\ ReachedIn("sensor_preflight", l, p) => p["cleanup"] \in {"ok", "failed"}
  /\ ReachedIn("tf_preflight", l, p) => p["sensor_preflight"] = "ok"
  /\ ReachedIn("lifecycle_startup", l, p) => p["tf_preflight"] = "ok"
  /\ ReachedIn("auto_train", l, p) => p["lifecycle_startup"] = "ok"
  /\ p["sensor_preflight"] = "ok" => l.static_tf
NodesOf(s, y, w, p) ==
  /\ s \in [pc: {"services", "wait", "probe"}, sent: BOOLEAN, ack: BOOLEAN,
            asked: SUBSET Nav2Nodes, active: SUBSET Nav2Nodes]
  /\ y \in [Nav2Nodes -> {"unconfigured", "inactive", "active"}]
  /\ w \subseteq Nav2Nodes /\ s.active \subseteq w
  /\ s.pc = "probe" => \A n \in Nav2Nodes : y[n] = "active" => n \in w
  /\ p["lifecycle_startup"] = "ok" => w = Nav2Nodes
RunnerPcs == {"load", "servers", "perception", "send", "accept", "result", "done"}
RunnerOf(t, g) ==
  /\ t.pc \in RunnerPcs
  /\ t = [pc |-> t.pc, stage |-> t.stage, route |-> t.route, perception |-> t.perception,
          results |-> t.results]
  /\ t.stage \in DOMAIN Segments /\ t.results \in Seq(ToSet(t.results))
  /\ DOMAIN g = DOMAIN Segments
  /\ t.pc \notin {"load", "done"} => t.route = Segments
  /\ t.pc = "send" /\ t.stage = 1 => t.perception.ready
  /\ t.pc # "done" =>
       /\ Len(t.results) = t.stage - 1
       /\ \A k \in 1 .. t.stage - 1 :
            g[k] = "succeeded" /\ Evident(t.results[k], Segments[k])
ResultsTrue(r, t, g) ==
  r.status = "completed" =>
    /\ t.pc = "done"
    /\ r.route = Segments /\ Len(r.results) = Len(Segments)
    /\ r.results \in Seq(ToSet(r.results))
    /\ \A k \in DOMAIN Segments : g[k] = "succeeded" /\ Evident(r.results[k], Segments[k])

LEMMA SimInvariantIs ==
  SimInvariant <=> /\ GatesOf(launch, proc) /\ NodesOf(startup, lifecycle, witnessed, proc)
                   /\ RunnerOf(trainer, goals) /\ ResultsTrue(results, trainer, goals)
<1>1. GatesFollow /\ launch \in LaunchType /\ proc \in [Gates -> Codes]
      <=> GatesOf(launch, proc)
  BY DEF GatesFollow, GatesOf, Reached, ReachedIn
<1>2. ResultsFollow <=> ResultsTrue(results, trainer, goals)
  BY DEF ResultsFollow, ResultsTrue
<1> HIDE DEF GatesFollow, GatesOf, ResultsFollow, ResultsTrue
<1>3. QED
  BY <1>1, <1>2
  DEF SimInvariant, SimTyped, LaunchType, NodesFollow, NodesOf, RunnerFollows, RunnerOf, RunnerPcs

\* The same of the next state.
LEMMA SimInvariantNext ==
  ASSUME GatesOf(launch', proc'), NodesOf(startup', lifecycle', witnessed', proc'),
         RunnerOf(trainer', goals'), ResultsTrue(results', trainer', goals')
  PROVE  SimInvariant'
<1>1. GatesFollow' /\ launch' \in LaunchType /\ proc' \in [Gates -> Codes]
  BY DEF GatesFollow, GatesOf, Reached, ReachedIn
<1>2. ResultsFollow'
  BY DEF ResultsFollow, ResultsTrue
<1>3. NodesFollow'
  BY DEF NodesFollow, NodesOf
<1>4. RunnerFollows'
  BY DEF RunnerFollows, RunnerOf
<1>5. SimTyped'
  BY <1>1 DEF SimTyped, LaunchType, NodesOf, RunnerOf, RunnerPcs
<1>6. QED
  BY <1>1, <1>2, <1>3, <1>4, <1>5 DEF SimInvariant

\* The segments are a sequence.
LEMMA SegmentsAre ==
  /\ Segments \in Seq(ToSet(Segments)) /\ Len(Segments) \in Nat \ {0}
  /\ DOMAIN Segments = 1 .. Len(Segments)
<1>1. Segments \in Seq(ToSet(Segments)) /\ Segments # <<>>
  BY SimLaunchAssumption
<1>2. QED
  BY <1>1, EmptySeq, LenProperties

\* A bring-up that begins.
LEMMA BringUpStarts ==
  /\ GatesOf(NewLaunch, [p \in Gates |-> "none"])
  /\ NodesOf(NewStartup, [n \in Nav2Nodes |-> "unconfigured"], {}, [p \in Gates |-> "none"])
  /\ RunnerOf(NewTrainer, [k \in DOMAIN Segments |-> "none"])
  /\ ResultsTrue(NoResults, NewTrainer, [k \in DOMAIN Segments |-> "none"])
<1>1. GatesOf(NewLaunch, [p \in Gates |-> "none"])
  BY DEF GatesOf, NewLaunch, LaunchType, Gates, Codes, ReachedIn
<1>2. NodesOf(NewStartup, [n \in Nav2Nodes |-> "unconfigured"], {}, [p \in Gates |-> "none"])
  BY DEF NodesOf, NewStartup, Gates
<1>3. <<>> \in Seq(ToSet(<<>>)) /\ Len(<<>>) = 0
  BY EmptySeq
<1>4. 1 \in DOMAIN Segments
  BY SegmentsAre
<1>5. RunnerOf(NewTrainer, [k \in DOMAIN Segments |-> "none"])
  BY <1>3, <1>4 DEF RunnerOf, NewTrainer, RunnerPcs
<1>6. ResultsTrue(NoResults, NewTrainer, [k \in DOMAIN Segments |-> "none"])
  BY DEF ResultsTrue, NoResults
<1>7. QED
  BY <1>1, <1>2, <1>5, <1>6

-----------------------------------------------------------------------------
(* The gates. *)

\* The gates by name.
LEMMA GatesAre ==
  /\ "cleanup" \in Gates /\ "sensor_preflight" \in Gates /\ "tf_preflight" \in Gates
  /\ "lifecycle_startup" \in Gates /\ "auto_train" \in Gates
  BY DEF Gates

\* A process that runs and exits keeps the order of the gates, as does what the launch
\* service adds behind it.
LEMMA ExitKeeps ==
  ASSUME NEW l, NEW p, GatesOf(l, p), ~ l.shutdown, NEW gate \in Gates, p[gate] = "running",
         NEW code \in {"ok", "failed"}, NEW m \in LaunchType,
         m.params = l.params, l.static_tf => m.static_tf,
         gate = "cleanup" => code = "ok",
         gate = "sensor_preflight" /\ code = "ok" => m.static_tf,
         \/ m.timers = l.timers
         \/ code = "ok" /\ gate = "sensor_preflight" /\ m.timers = l.timers \cup {"tf_preflight"}
         \/ code = "ok" /\ gate = "tf_preflight" /\ m.timers = l.timers \cup {"lifecycle_startup"}
         \/ code = "ok" /\ gate = "lifecycle_startup" /\ m.timers = l.timers \cup {"auto_train"}
  PROVE  GatesOf(m, [p EXCEPT ![gate] = code])
<1> DEFINE q == [p EXCEPT ![gate] = code]
<1>1. /\ q \in [Gates -> Codes] /\ q[gate] = code
      /\ \A other \in Gates \ {gate} : q[other] = p[other]
  BY DEF GatesOf, Codes
<1>2. l.params # "removed"
  BY DEF GatesOf
<1>3. l.timers \subseteq Gates /\ gate \notin l.timers
  BY DEF GatesOf, LaunchType
<1>4. /\ ~ ReachedIn("tf_preflight", l, p) \/ p["sensor_preflight"] = "ok"
      /\ ~ ReachedIn("lifecycle_startup", l, p) \/ p["tf_preflight"] = "ok"
      /\ ~ ReachedIn("auto_train", l, p) \/ p["lifecycle_startup"] = "ok"
  BY DEF GatesOf
<1> HIDE DEF q
<1>5. \A other \in m.timers : q[other] = "none"
  BY <1>1, <1>3, <1>4, GatesAre DEF GatesOf, ReachedIn
<1>6. q["cleanup"] # "none" => m.params # "none"
  BY <1>1, GatesAre DEF GatesOf
<1>7. "cleanup" \notin m.timers /\ "sensor_preflight" \notin m.timers
  BY DEF GatesOf
<1>8. ReachedIn("sensor_preflight", m, q) => q["cleanup"] \in {"ok", "failed"}
  BY <1>1, <1>7, GatesAre DEF GatesOf, ReachedIn
<1>9. ReachedIn("tf_preflight", m, q) => q["sensor_preflight"] = "ok"
  BY <1>1, <1>3, GatesAre DEF GatesOf, ReachedIn
<1>10. ReachedIn("lifecycle_startup", m, q) => q["tf_preflight"] = "ok"
  BY <1>1, <1>3, GatesAre DEF GatesOf, ReachedIn
<1>11. ReachedIn("auto_train", m, q) => q["lifecycle_startup"] = "ok"
  BY <1>1, <1>3, GatesAre DEF GatesOf, ReachedIn
<1>12. q["sensor_preflight"] = "ok" => m.static_tf
  BY <1>1, GatesAre DEF GatesOf
<1>13. QED
  BY <1>1, <1>2, <1>5, <1>6, <1>7, <1>8, <1>9, <1>10, <1>11, <1>12 DEF GatesOf, q

\* A shutdown changes no gate.
LEMMA ShutdownKeeps ==
  ASSUME NEW l, NEW p, GatesOf(l, p), NEW b \in BOOLEAN, l.shutdown => b
  PROVE  GatesOf([l EXCEPT !.shutdown = b], p)
<1> DEFINE m == [l EXCEPT !.shutdown = b]
<1>1. /\ m \in LaunchType /\ m.params = l.params /\ m.static_tf = l.static_tf
      /\ m.timers = l.timers /\ m.shutdown = b
  BY DEF GatesOf, LaunchType
<1> HIDE DEF m
<1>2. QED
  BY <1>1 DEF GatesOf, ReachedIn, m

\* What a bring-up keeps when only the launch service and its processes have moved.
LEMMA GatesMove ==
  ASSUME SimInvariant, GatesOf(launch', proc'),
         proc'["lifecycle_startup"] = "ok" => proc["lifecycle_startup"] = "ok",
         UNCHANGED <<startup, lifecycle, witnessed, trainer, goals, results>>
  PROVE  SimInvariant'
<1>1. /\ GatesOf(launch, proc) /\ NodesOf(startup, lifecycle, witnessed, proc)
      /\ RunnerOf(trainer, goals) /\ ResultsTrue(results, trainer, goals)
  BY SimInvariantIs
<1>2. NodesOf(startup', lifecycle', witnessed', proc')
  BY <1>1 DEF NodesOf
<1>3. QED
  BY <1>1, <1>2, SimInvariantNext

\* The steps of the launch service.
LEMMA LaunchServiceKeeps == SimInvariant /\ LaunchService => SimInvariant'
<1> SUFFICES ASSUME SimInvariant, LaunchService PROVE SimInvariant'
  OBVIOUS
<1>1. GatesOf(launch, proc)
  BY SimInvariantIs
<1>2. launch \in LaunchType /\ proc \in [Gates -> Codes]
  BY <1>1 DEF GatesOf
<1>3. CASE Launch
  <2>1. launch.params = "none" /\ ~ launch.shutdown
        /\ UNCHANGED <<startup, lifecycle, witnessed, trainer, goals, results>>
    BY <1>3 DEF Launch
  <2>2. CASE launch' = WithParameters /\ Exits("cleanup", "running")
    <3>1. launch' = [launch EXCEPT !.params = "whole"] /\ proc' = [proc EXCEPT !["cleanup"] = "running"]
      BY <2>2 DEF WithParameters, Exits
    <3>2. /\ launch' \in LaunchType /\ launch'.params = "whole" /\ launch'.timers = launch.timers
          /\ launch'.static_tf = launch.static_tf
      BY <1>2, <3>1 DEF LaunchType
    <3>3. /\ proc' \in [Gates -> Codes] /\ proc'["cleanup"] = "running"
          /\ \A gate \in Gates \ {"cleanup"} : proc'[gate] = proc[gate]
      BY <1>2, <3>1, GatesAre DEF Codes
    <3>4. proc["cleanup"] = "none" /\ ~ ReachedIn("sensor_preflight", launch, proc)
      BY <1>1, <2>1 DEF GatesOf
    <3>5. GatesOf(launch', proc')
      <4>1. \A gate \in launch.timers : gate # "cleanup" /\ gate \in Gates
        BY <1>1 DEF GatesOf, LaunchType
      <4>2. QED
        BY <1>1, <3>2, <3>3, <3>4, <4>1, GatesAre DEF GatesOf, ReachedIn
    <3>6. QED
      BY <2>1, <3>3, <3>5, GatesAre, GatesMove
  <2>3. CASE launch' = [launch EXCEPT !.shutdown = TRUE] /\ UNCHANGED proc
    <3>1. GatesOf(launch', proc')
      BY <1>1, <2>3, ShutdownKeeps
    <3>2. QED
      BY <2>1, <2>3, <3>1, GatesMove
  <2>4. QED
    BY <1>3, <2>2, <2>3 DEF Launch
<1>4. CASE CleanupExits
  <2>1. PICK code \in {"ok", "failed"} :
          proc' = [proc EXCEPT !["cleanup"] = code, !["sensor_preflight"] = "running"]
    BY <1>4 DEF CleanupExits
  <2>2. proc["cleanup"] = "running" /\ UNCHANGED <<launch, startup, lifecycle, witnessed, trainer, goals, results>>
    BY <1>4 DEF CleanupExits, Up
  <2>3. /\ proc' \in [Gates -> Codes] /\ proc'["cleanup"] = code
        /\ proc'["sensor_preflight"] = "running"
        /\ \A gate \in Gates \ {"cleanup", "sensor_preflight"} : proc'[gate] = proc[gate]
    BY <1>2, <2>1, GatesAre DEF Codes
  <2>4. /\ ~ ReachedIn("sensor_preflight", launch, proc)
        /\ ~ ReachedIn("tf_preflight", launch, proc)
    BY <1>1, <2>2 DEF GatesOf, ReachedIn
  <2>5. \A gate \in launch.timers : gate \notin {"cleanup", "sensor_preflight"} /\ gate \in Gates
    BY <1>1 DEF GatesOf, LaunchType
  <2>6. GatesOf(launch', proc')
    BY <1>1, <2>2, <2>3, <2>4, <2>5, GatesAre DEF GatesOf, ReachedIn
  <2>7. QED
    BY <2>2, <2>3, <2>6, GatesAre, GatesMove
<1>5. ASSUME NEW gate \in {"sensor_preflight", "tf_preflight"}, NEW next, GateExits(gate, next),
             Up(gate) => GatesOf(next, [proc EXCEPT ![gate] = "ok"])
      PROVE  SimInvariant'
  <2>1. /\ ~ launch.shutdown /\ proc[gate] = "running" /\ gate \in Gates
        /\ UNCHANGED <<startup, lifecycle, witnessed, trainer, goals, results>>
    BY <1>5, GatesAre DEF GateExits, Up
  <2>2. CASE Exits(gate, "ok") /\ launch' = next
    <3>1. proc' = [proc EXCEPT ![gate] = "ok"] /\ GatesOf(launch', proc')
      BY <1>5, <2>1, <2>2 DEF Exits, Up
    <3>2. proc'["lifecycle_startup"] = proc["lifecycle_startup"]
      BY <1>2, <3>1, GatesAre
    <3>3. QED
      BY <2>1, <3>1, <3>2, GatesMove
  <2>3. CASE Exits(gate, "failed") /\ launch' = [launch EXCEPT !.shutdown = TRUE]
    <3>1. proc' = [proc EXCEPT ![gate] = "failed"]
      BY <2>3 DEF Exits
    <3>2. GatesOf(launch, proc')
      BY <1>1, <1>2, <2>1, <3>1, ExitKeeps
    <3>3. GatesOf(launch', proc')
      BY <2>3, <3>2, ShutdownKeeps
    <3>4. proc'["lifecycle_startup"] = proc["lifecycle_startup"]
      BY <1>2, <3>1, GatesAre
    <3>5. QED
      BY <2>1, <3>3, <3>4, GatesMove
  <2>4. QED
    BY <1>5, <2>2, <2>3 DEF GateExits
<1>6. CASE SensorPreflightExits
  <2> DEFINE next == [launch EXCEPT !.static_tf = TRUE, !.timers = @ \cup {"tf_preflight"}]
  <2>1. GateExits("sensor_preflight", next)
    BY <1>6 DEF SensorPreflightExits
  <2>2. /\ next \in LaunchType /\ next.params = launch.params /\ next.static_tf
        /\ next.timers = launch.timers \cup {"tf_preflight"}
    BY <1>2, GatesAre DEF LaunchType
  <2> HIDE DEF next
  <2>3. Up("sensor_preflight") => GatesOf(next, [proc EXCEPT !["sensor_preflight"] = "ok"])
    BY <1>1, <2>2, GatesAre, ExitKeeps DEF Up
  <2>4. QED
    BY <1>5, <2>1, <2>3
<1>7. CASE SensorTfPreflightExits
  <2> DEFINE next == IF launch.nav2_started THEN launch
                     ELSE [launch EXCEPT !.nav2_started = TRUE,
                                         !.timers = @ \cup {"lifecycle_startup"}]
  <2>1. GateExits("tf_preflight", next)
    BY <1>7 DEF SensorTfPreflightExits
  <2>2. /\ next \in LaunchType /\ next.params = launch.params /\ next.static_tf = launch.static_tf
        /\ next.timers \in {launch.timers, launch.timers \cup {"lifecycle_startup"}}
    BY <1>2, GatesAre DEF LaunchType
  <2> HIDE DEF next
  <2>3. Up("tf_preflight") => GatesOf(next, [proc EXCEPT !["tf_preflight"] = "ok"])
    BY <1>1, <2>2, GatesAre, ExitKeeps DEF Up
  <2>4. QED
    BY <1>5, <2>1, <2>3
<1>8. ASSUME NEW gate \in Gates, TimerFires(gate) PROVE SimInvariant'
  <2>1. /\ gate \in launch.timers /\ UNCHANGED <<startup, lifecycle, witnessed, trainer, goals, results>>
        /\ launch' = [launch EXCEPT !.timers = @ \ {gate}]
        /\ proc' = [proc EXCEPT ![gate] = "running"]
    BY <1>8 DEF TimerFires, Starts, Exits
  <2>2. /\ launch' \in LaunchType /\ launch'.params = launch.params
        /\ launch'.static_tf = launch.static_tf /\ launch'.timers = launch.timers \ {gate}
        /\ launch'.shutdown = launch.shutdown
    BY <1>2, <2>1 DEF LaunchType
  <2>3. /\ proc' \in [Gates -> Codes] /\ proc'[gate] = "running"
        /\ \A other \in Gates \ {gate} : proc'[other] = proc[other]
    BY <1>2, <2>1 DEF Codes
  <2>4. proc[gate] = "none" /\ gate # "cleanup" /\ gate # "sensor_preflight"
    BY <1>1, <2>1 DEF GatesOf
  <2>5. \A other \in launch.timers : other \in Gates
    BY <1>2 DEF LaunchType
  <2>6. GatesOf(launch', proc')
    BY <1>1, <2>1, <2>2, <2>3, <2>4, <2>5, GatesAre DEF GatesOf, ReachedIn
  <2>7. QED
    BY <2>1, <2>3, <2>6, GatesAre, GatesMove
<1>9. CASE ShutsDown
  <2>1. /\ launch.shutdown /\ launch' = [launch EXCEPT !.params = "removed"]
        /\ proc' = [p \in Gates |-> IF proc[p] = "running" THEN "killed" ELSE proc[p]]
        /\ UNCHANGED <<startup, lifecycle, witnessed, trainer, goals, results>>
    BY <1>9 DEF ShutsDown
  <2>2. /\ launch' \in LaunchType /\ launch'.params = "removed" /\ launch'.shutdown
        /\ launch'.static_tf = launch.static_tf /\ launch'.timers = launch.timers
    BY <1>2, <2>1 DEF LaunchType
  <2>3. /\ proc' \in [Gates -> Codes]
        /\ \A gate \in Gates : /\ proc'[gate] = "none" <=> proc[gate] = "none"
                               /\ proc'[gate] = "ok" <=> proc[gate] = "ok"
                               /\ proc'[gate] = "failed" <=> proc[gate] = "failed"
    BY <1>2, <2>1 DEF Codes
  <2>4. \A gate \in launch.timers : gate \in Gates
    BY <1>2 DEF LaunchType
  <2>5. GatesOf(launch', proc')
    BY <1>1, <2>2, <2>3, <2>4, GatesAre DEF GatesOf, ReachedIn
  <2>6. QED
    BY <2>1, <2>3, <2>5, GatesAre, GatesMove
<1>10. QED
  BY <1>3, <1>4, <1>6, <1>7, <1>8, <1>9 DEF LaunchService


-----------------------------------------------------------------------------
(* The helper, the nodes and the runner. *)

\* What a bring-up keeps when the runner has not moved.
LEMMA BringUpMoves ==
  ASSUME SimInvariant, GatesOf(launch', proc'), NodesOf(startup', lifecycle', witnessed', proc'),
         UNCHANGED <<trainer, goals, results>>
  PROVE  SimInvariant'
<1>1. RunnerOf(trainer, goals) /\ ResultsTrue(results, trainer, goals)
  BY SimInvariantIs
<1>2. QED
  BY <1>1, SimInvariantNext

\* The exit of the helper: the runner is added behind it, or everything goes down.
LEMMA StartupExitKeeps ==
  ASSUME SimInvariant, Up("lifecycle_startup"), NEW code \in {"ok", "failed"}, StartupExits(code)
  PROVE  GatesOf(launch', proc') /\ proc'["lifecycle_startup"] = code
<1>1. GatesOf(launch, proc) /\ ~ launch.shutdown /\ proc["lifecycle_startup"] = "running"
  BY SimInvariantIs DEF Up
<1>2. launch \in LaunchType /\ proc \in [Gates -> Codes]
  BY <1>1 DEF GatesOf
<1>3. proc' = [proc EXCEPT !["lifecycle_startup"] = code]
  BY DEF StartupExits, Exits
<1>4. CASE code = "ok"
  <2>1. launch' = [launch EXCEPT !.timers = @ \cup IF RunRoute THEN {"auto_train"} ELSE {}]
    BY <1>4 DEF StartupExits
  <2>2. /\ launch' \in LaunchType /\ launch'.params = launch.params
        /\ launch'.static_tf = launch.static_tf
        /\ launch'.timers \in {launch.timers, launch.timers \cup {"auto_train"}}
    BY <1>2, <2>1, GatesAre DEF LaunchType
  <2>3. QED
    BY <1>1, <1>2, <1>3, <1>4, <2>2, GatesAre, ExitKeeps
<1>5. CASE code = "failed"
  <2>1. launch' = [launch EXCEPT !.shutdown = TRUE]
    BY <1>5 DEF StartupExits
  <2>2. GatesOf(launch, proc')
    BY <1>1, <1>2, <1>3, <1>5, GatesAre, ExitKeeps
  <2>3. QED
    BY <1>2, <1>3, <2>1, <2>2, GatesAre, ShutdownKeeps
<1>6. QED
  BY <1>4, <1>5

\* The steps of the helper: what it found active was so in its probe.
LEMMA HelperKeeps == SimInvariant /\ HelperStep => SimInvariant'
<1> SUFFICES ASSUME SimInvariant, HelperStep PROVE SimInvariant'
  OBVIOUS
<1> DEFINE StartupType == [pc: {"services", "wait", "probe"}, sent: BOOLEAN, ack: BOOLEAN,
                           asked: SUBSET Nav2Nodes, active: SUBSET Nav2Nodes]
<1>1. GatesOf(launch, proc) /\ NodesOf(startup, lifecycle, witnessed, proc)
  BY SimInvariantIs
<1>2. startup \in StartupType
  BY <1>1 DEF NodesOf
<1>3. ASSUME UNCHANGED <<launch, proc, lifecycle, witnessed, trainer, goals, results>>,
             startup' \in StartupType, startup'.active \subseteq witnessed,
             startup'.pc = "probe" => startup.pc = "probe"
      PROVE  SimInvariant'
  BY <1>1, <1>3, BringUpMoves DEF NodesOf
<1>4. ASSUME Up("lifecycle_startup"), StartupExits("failed"),
             UNCHANGED <<startup, lifecycle, witnessed, trainer, goals, results>>
      PROVE  SimInvariant'
  <2>1. GatesOf(launch', proc') /\ proc'["lifecycle_startup"] = "failed"
    BY <1>4, StartupExitKeeps
  <2>2. NodesOf(startup', lifecycle', witnessed', proc')
    BY <1>1, <1>4, <2>1 DEF NodesOf
  <2>3. QED
    BY <1>4, <2>1, <2>2, BringUpMoves
<1>5. CASE SendStartup
  <2>1. startup' = [startup EXCEPT !.pc = "wait", !.sent = TRUE]
    BY <1>5 DEF SendStartup
  <2>2. startup' \in StartupType /\ startup'.active = startup.active /\ startup'.pc = "wait"
    BY <1>2, <2>1
  <2>3. QED
    BY <1>1, <1>3, <1>5, <2>2 DEF SendStartup, NodesOf
<1>6. CASE StartupGivesUp
  BY <1>4, <1>6 DEF StartupGivesUp, HelperOnly
<1>7. CASE ReadReply
  <2>1. Up("lifecycle_startup") /\ UNCHANGED <<lifecycle, witnessed, trainer, goals, results>>
    BY <1>7 DEF ReadReply, Helper, HelperOnly
  <2>2. CASE manager = "up"
    <3>1. startup' = [startup EXCEPT !.ack = TRUE] /\ UNCHANGED <<launch, proc>>
      BY <1>7, <2>2 DEF ReadReply
    <3>2. startup' \in StartupType /\ startup'.active = startup.active /\ startup'.pc = startup.pc
      BY <1>2, <3>1
    <3>3. QED
      BY <1>1, <1>3, <2>1, <3>1, <3>2 DEF NodesOf
  <2>3. CASE manager # "up"
    BY <1>4, <1>7, <2>1, <2>3 DEF ReadReply
  <2>4. QED
    BY <2>2, <2>3
<1>8. CASE BeginProbe
  <2>1. /\ startup' = [startup EXCEPT !.pc = "probe", !.asked = Nav2Nodes, !.active = {}]
        /\ witnessed' = {n \in Nav2Nodes : lifecycle[n] = "active"}
        /\ proc["lifecycle_startup"] = "running"
        /\ UNCHANGED <<launch, proc, lifecycle, trainer, goals, results>>
    BY <1>8 DEF BeginProbe, Helper, Up
  <2>2. startup' \in StartupType /\ startup'.active = {}
    BY <1>2, <2>1
  <2>3. NodesOf(startup', lifecycle', witnessed', proc')
    BY <1>1, <2>1, <2>2 DEF NodesOf
  <2>4. QED
    BY <1>1, <2>1, <2>3, BringUpMoves
<1>9. ASSUME NEW n \in Nav2Nodes, NodeAnswers(n) PROVE SimInvariant'
  <2>1. startup' = [startup EXCEPT !.asked = @ \ {n},
                      !.active = IF lifecycle[n] = "active" THEN @ \cup {n} ELSE @]
    BY <1>9 DEF NodeAnswers
  <2>2. /\ startup' \in StartupType
        /\ startup'.active = IF lifecycle[n] = "active" THEN startup.active \cup {n}
                             ELSE startup.active
        /\ startup'.pc = startup.pc
    BY <1>2, <2>1
  <2>3. startup'.active \subseteq witnessed
    <3>1. startup.pc = "probe"
      BY <1>9 DEF NodeAnswers, Helper
    <3>2. QED
      BY <1>1, <2>2, <3>1 DEF NodesOf
  <2>4. QED
    BY <1>3, <1>9, <2>2, <2>3 DEF NodeAnswers, HelperOnly
<1>10. CASE ProbeEnds
  <2>1. /\ startup' = [startup EXCEPT !.pc = "wait", !.asked = {}, !.active = {}]
        /\ Up("lifecycle_startup") /\ UNCHANGED <<lifecycle, witnessed, trainer, goals, results>>
    BY <1>10 DEF ProbeEnds, Helper, HelperOnly
  <2>2. startup' \in StartupType /\ startup'.active = {} /\ startup'.pc = "wait"
    BY <1>2, <2>1
  <2>3. CASE AllActive
    <3>1. StartupExits("ok")
      BY <1>10, <2>3 DEF ProbeEnds
    <3>2. GatesOf(launch', proc')
      BY <2>1, <3>1, StartupExitKeeps
    <3>3. NodesOf(startup', lifecycle', witnessed', proc')
      BY <1>1, <2>1, <2>2, <2>3 DEF NodesOf, AllActive
    <3>4. QED
      BY <2>1, <3>2, <3>3, BringUpMoves
  <2>4. CASE ~ AllActive
    BY <1>1, <1>3, <1>10, <2>1, <2>2, <2>4 DEF ProbeEnds, NodesOf
  <2>5. QED
    BY <2>3, <2>4
<1>11. QED
  BY <1>5, <1>6, <1>7, <1>8, <1>9, <1>10 DEF HelperStep

\* A node that moves to a state: one that becomes active in the middle of a probe is
\* witnessed by it.
LEMMA NodeMoves ==
  ASSUME SimInvariant, NEW n \in Nav2Nodes, NEW to \in {"unconfigured", "inactive", "active"},
         lifecycle' = [lifecycle EXCEPT ![n] = to],
         witnessed' \in {witnessed, witnessed \cup {n}},
         to = "active" /\ startup.pc = "probe" => witnessed' = witnessed \cup {n},
         UNCHANGED <<launch, proc, startup, trainer, goals, results>>
  PROVE  SimInvariant'
<1>1. GatesOf(launch, proc) /\ NodesOf(startup, lifecycle, witnessed, proc)
  BY SimInvariantIs
<1>2. lifecycle \in [Nav2Nodes -> {"unconfigured", "inactive", "active"}]
  BY <1>1 DEF NodesOf
<1>3. /\ lifecycle' \in [Nav2Nodes -> {"unconfigured", "inactive", "active"}]
      /\ lifecycle'[n] = to /\ \A node \in Nav2Nodes \ {n} : lifecycle'[node] = lifecycle[node]
  BY <1>2
<1>4. NodesOf(startup', lifecycle', witnessed', proc')
  BY <1>1, <1>3 DEF NodesOf
<1>5. QED
  BY <1>1, <1>4, BringUpMoves

\* The steps of Nav2's lifecycle manager, and of nodes that leave and come back.
LEMMA ManagerKeeps ==
  /\ SimInvariant /\ ManagerStep => SimInvariant'
  /\ \A n \in Nav2Nodes : SimInvariant /\ (NodeLeaves(n) \/ NodeReturns(n)) => SimInvariant'
<1>1. ASSUME SimInvariant, ManagerGoesOn PROVE SimInvariant'
  <2>1. GatesOf(launch, proc) /\ NodesOf(startup, lifecycle, witnessed, proc)
    BY <1>1, SimInvariantIs
  <2>2. QED
    BY <1>1, <2>1, BringUpMoves DEF ManagerGoesOn
<1>2. ASSUME SimInvariant, NEW n \in Nav2Nodes, ManagerMoves(n) PROVE SimInvariant'
  <2> DEFINE to == IF manager = "configure" THEN "inactive" ELSE "active"
  <2>1. /\ lifecycle' = [lifecycle EXCEPT ![n] = to]
        /\ witnessed' = IF to = "active" /\ startup.pc = "probe" THEN witnessed \cup {n} ELSE witnessed
        /\ UNCHANGED <<launch, proc, startup, trainer, goals, results>>
    BY <1>2 DEF ManagerMoves
  <2>2. to \in {"unconfigured", "inactive", "active"}
    OBVIOUS
  <2> HIDE DEF to
  <2>3. QED
    BY <1>2, <2>1, <2>2, NodeMoves
<1>3. ASSUME SimInvariant, NEW n \in Nav2Nodes, NodeLeaves(n) PROVE SimInvariant'
  BY <1>3, NodeMoves DEF NodeLeaves
<1>4. ASSUME SimInvariant, NEW n \in Nav2Nodes, NodeReturns(n) PROVE SimInvariant'
  BY <1>4, NodeMoves DEF NodeReturns
<1>5. QED
  BY <1>1, <1>2, <1>3, <1>4 DEF ManagerStep

\* A word of the monitor changes nothing else.
LEMMA MonitorKeeps ==
  ASSUME SimInvariant, NEW status, MonitorPublishes(status)
  PROVE  SimInvariant'
<1>1. GatesOf(launch, proc) /\ NodesOf(startup, lifecycle, witnessed, proc)
  BY SimInvariantIs
<1>2. QED
  BY <1>1, BringUpMoves DEF MonitorPublishes

\* Nav2 serves a goal: no goal that succeeded is touched.
LEMMA Nav2Keeps ==
  ASSUME SimInvariant, NEW k \in DOMAIN Segments, Nav2Serves(k)
  PROVE  /\ SimInvariant'
         /\ DOMAIN goals' = DOMAIN goals
         /\ \A j \in DOMAIN Segments : goals[j] = "succeeded" => goals'[j] = "succeeded"
         /\ \A j \in DOMAIN Segments : goals'[j] = "sent" => goals[j] = "sent"
<1>1. /\ GatesOf(launch, proc) /\ NodesOf(startup, lifecycle, witnessed, proc)
      /\ RunnerOf(trainer, goals) /\ ResultsTrue(results, trainer, goals)
  BY SimInvariantIs
<1>2. UNCHANGED <<launch, proc, startup, lifecycle, witnessed, trainer, results>>
  BY DEF Nav2Serves
<1>3. PICK s \in {"accepted", "rejected", "succeeded", "aborted", "canceled"} :
        goals[k] # "succeeded" /\ goals' = [goals EXCEPT ![k] = s]
  <2>1. CASE goals[k] = "sent"
    BY <2>1 DEF Nav2Serves
  <2>2. CASE goals[k] = "accepted"
    BY <2>2 DEF Nav2Serves
  <2>3. CASE goals[k] = "canceling"
    BY <2>3 DEF Nav2Serves
  <2>4. CASE goals[k] \notin {"sent", "accepted", "canceling"}
    BY <2>4 DEF Nav2Serves
  <2>5. QED
    BY <2>1, <2>2, <2>3, <2>4
<1>4. /\ DOMAIN goals' = DOMAIN goals
      /\ \A j \in DOMAIN goals : goals[j] = "succeeded" => goals'[j] = "succeeded"
      /\ \A j \in DOMAIN goals : goals'[j] = "sent" => goals[j] = "sent"
  BY <1>3
<1>5. DOMAIN goals = DOMAIN Segments
  BY <1>1 DEF RunnerOf
<1>6. trainer.stage \in DOMAIN Segments /\ 1 .. trainer.stage - 1 \subseteq DOMAIN Segments
  BY <1>1, SegmentsAre DEF RunnerOf
<1>7. RunnerOf(trainer', goals')
  BY <1>1, <1>2, <1>4, <1>5, <1>6 DEF RunnerOf
<1>8. ResultsTrue(results', trainer', goals')
  BY <1>1, <1>2, <1>4, <1>5 DEF ResultsTrue
<1>9. QED
  BY <1>1, <1>2, <1>4, <1>5, <1>7, <1>8, SimInvariantNext

\* Append by name: one more element, the earlier ones as they were.
LEMMA AppendIs ==
  ASSUME NEW s, s \in Seq(ToSet(s)), NEW x
  PROVE  /\ Append(s, x) \in Seq(ToSet(Append(s, x)))
         /\ Len(Append(s, x)) = Len(s) + 1 /\ Len(s) \in Nat
         /\ \A k \in 1 .. Len(s) : Append(s, x)[k] = s[k]
         /\ Append(s, x)[Len(s) + 1] = x
<1> DEFINE S == ToSet(s) \cup {x}
<1>1. s \in Seq(S) /\ x \in S /\ Len(s) \in Nat
  BY LenProperties
<1> HIDE DEF S
<1>2. /\ Append(s, x) \in Seq(S) /\ Len(Append(s, x)) = Len(s) + 1
      /\ \A k \in 1 .. Len(s) : Append(s, x)[k] = s[k]
      /\ Append(s, x)[Len(s) + 1] = x
  BY <1>1, AppendProperties
<1> DEFINE a == Append(s, x)
<1> HIDE DEF a
<1>3. a \in [1 .. Len(a) -> ToSet(a)] /\ Len(a) \in Nat
  <2>1. a \in [1 .. Len(a) -> S] /\ Len(a) \in Nat
    BY <1>2, LenProperties DEF a
  <2>2. QED
    BY <2>1 DEF ToSet
<1>4. a \in Seq(ToSet(a))
  BY <1>3
<1>5. QED
  BY <1>1, <1>2, <1>4 DEF a

\* What a bring-up keeps when only the runner has moved, and perhaps ended.
LEMMA RunnerMoves ==
  ASSUME SimInvariant, GatesOf(launch', proc'),
         proc'["lifecycle_startup"] = proc["lifecycle_startup"], UNCHANGED <<startup, lifecycle, witnessed>>,
         RunnerOf(trainer', goals'), ResultsTrue(results', trainer', goals')
  PROVE  SimInvariant'
<1>1. NodesOf(startup, lifecycle, witnessed, proc)
  BY SimInvariantIs
<1>2. NodesOf(startup', lifecycle', witnessed', proc')
  BY <1>1 DEF NodesOf
<1>3. QED
  BY <1>2, SimInvariantNext

\* The exit of the runner.
LEMMA TrainerExitKeeps ==
  ASSUME SimInvariant, Up("auto_train"), NEW code \in {"ok", "failed"}, TrainerExits(code)
  PROVE  /\ GatesOf(launch', proc')
         /\ proc'["lifecycle_startup"] = proc["lifecycle_startup"]
<1> DEFINE b == RunRoute /\ ShutdownOnRouteExit
<1>1. b \in BOOLEAN
  OBVIOUS
<1>2. /\ proc' = [proc EXCEPT !["auto_train"] = code]
      /\ launch' = [launch EXCEPT !.shutdown = b]
  BY DEF TrainerExits, Exits
<1> HIDE DEF b
<1>3. GatesOf(launch, proc) /\ ~ launch.shutdown /\ proc["auto_train"] = "running"
  BY SimInvariantIs DEF Up
<1>4. launch \in LaunchType /\ proc \in [Gates -> Codes]
  BY <1>3 DEF GatesOf
<1>5. GatesOf(launch, proc')
  BY <1>2, <1>3, <1>4, GatesAre, ExitKeeps
<1>6. QED
  BY <1>1, <1>2, <1>3, <1>4, <1>5, GatesAre, ShutdownKeeps

\* A runner that saves and ends: it writes that the route is completed only when every
\* segment is in what it writes, and Nav2 succeeded at it.
LEMMA SaveKeeps ==
  ASSUME SimInvariant, Up("auto_train"), trainer.pc \notin {"load", "done"},
         NEW status, NEW evidence, evidence \in Seq(ToSet(evidence)),
         SavesAndExits(status, evidence), UNCHANGED <<startup, lifecycle, witnessed>>,
         DOMAIN goals' = DOMAIN Segments,
         status = "completed" =>
           /\ Len(evidence) = Len(Segments)
           /\ \A k \in DOMAIN Segments :
                goals'[k] = "succeeded" /\ Evident(evidence[k], Segments[k])
  PROVE  SimInvariant'
<1>1. RunnerOf(trainer, goals)
  BY SimInvariantIs
<1>2. /\ trainer' = [trainer EXCEPT !.pc = "done", !.results = evidence]
      /\ results' = Saved(status, evidence) /\ TrainerExits("ok")
  BY DEF SavesAndExits
<1>3. GatesOf(launch', proc') /\ proc'["lifecycle_startup"] = proc["lifecycle_startup"]
  BY <1>2, TrainerExitKeeps
<1>4. trainer' = [pc |-> "done", stage |-> trainer.stage, route |-> trainer.route,
                  perception |-> trainer.perception, results |-> evidence]
  BY <1>1, <1>2 DEF RunnerOf
<1>5. RunnerOf(trainer', goals')
  BY <1>1, <1>4 DEF RunnerOf, RunnerPcs
<1>6. ResultsTrue(results', trainer', goals')
  BY <1>1, <1>2, <1>4 DEF Saved, ResultsTrue, RunnerOf
<1>7. QED
  BY <1>3, <1>5, <1>6, RunnerMoves

\* What the runner appends for a segment, and, when Nav2 succeeded, that it is evident.
LEMMA EvidenceIs ==
  ASSUME RunnerOf(trainer, goals), trainer.pc \notin {"load", "done"}, NEW outcome, NEW seen
  PROVE  LET evidence == Evidence(outcome, seen)
         IN /\ evidence \in Seq(ToSet(evidence)) /\ Len(evidence) = trainer.stage
            /\ outcome = "succeeded" /\ goals[trainer.stage] = "succeeded" =>
                 \A k \in 1 .. trainer.stage :
                   goals[k] = "succeeded" /\ Evident(evidence[k], Segments[k])
<1> DEFINE record ==
      [segment |-> Segment.id, goals |-> [i \in DOMAIN Segment.goals |-> Segment.goals[i].id],
       tree |-> Tree(Segment.goals), outcome |-> outcome, seen |-> seen]
<1>1. outcome = "succeeded" => Evident(record, Segments[trainer.stage])
  BY DEF Evident, Segment
<1>2. Evidence(outcome, seen) = Append(trainer.results, record)
  BY DEF Evidence
<1> HIDE DEF record
<1>3. /\ trainer.results \in Seq(ToSet(trainer.results))
      /\ Len(trainer.results) = trainer.stage - 1 /\ trainer.stage \in DOMAIN Segments
      /\ \A k \in 1 .. trainer.stage - 1 :
           goals[k] = "succeeded" /\ Evident(trainer.results[k], Segments[k])
  BY DEF RunnerOf
<1>4. trainer.stage \in Nat \ {0}
  BY <1>3, SegmentsAre
<1>5. /\ Append(trainer.results, record) \in Seq(ToSet(Append(trainer.results, record)))
      /\ Len(Append(trainer.results, record)) = trainer.stage
      /\ \A k \in 1 .. trainer.stage - 1 :
           Append(trainer.results, record)[k] = trainer.results[k]
      /\ Append(trainer.results, record)[trainer.stage] = record
  BY <1>3, <1>4, AppendIs
<1>6. ASSUME outcome = "succeeded", goals[trainer.stage] = "succeeded",
             NEW k \in 1 .. trainer.stage
      PROVE  goals[k] = "succeeded"
             /\ Evident(Append(trainer.results, record)[k], Segments[k])
  BY <1>1, <1>3, <1>4, <1>5, <1>6
<1>7. QED
  BY <1>2, <1>5, <1>6

\* A runner that goes on with nothing written: its place in the route, its results and
\* the goals of the earlier segments are kept.
LEMMA RunnerGoesOn ==
  ASSUME SimInvariant, trainer.pc # "done", NEW pc \in RunnerPcs \ {"done"}, NEW route, NEW word,
         trainer' = [pc |-> pc, stage |-> trainer.stage, route |-> route,
                     perception |-> word, results |-> trainer.results],
         UNCHANGED <<launch, proc, startup, lifecycle, witnessed, results>>,
         DOMAIN goals' = DOMAIN goals,
         \A k \in DOMAIN goals \ {trainer.stage} : goals'[k] = goals[k],
         pc # "load" => route = Segments,
         pc = "send" /\ trainer.stage = 1 => word.ready
  PROVE  SimInvariant'
<1>1. /\ GatesOf(launch, proc) /\ RunnerOf(trainer, goals)
      /\ ResultsTrue(results, trainer, goals)
  BY SimInvariantIs
<1>2. /\ trainer.stage \in 1 .. Len(Segments) /\ Len(Segments) \in Nat
      /\ DOMAIN goals = 1 .. Len(Segments)
  BY <1>1, SegmentsAre DEF RunnerOf
<1>3. \A k \in 1 .. trainer.stage - 1 : goals'[k] = goals[k]
  BY <1>2
<1>4. RunnerOf(trainer', goals')
  BY <1>1, <1>3 DEF RunnerOf
<1>5. ResultsTrue(results', trainer', goals')
  BY <1>1 DEF ResultsTrue
<1>6. QED
  BY <1>1, <1>4, <1>5, RunnerMoves

\* The steps of the runner.
LEMMA RunnerKeeps == SimInvariant /\ RunnerStep => SimInvariant'
<1> SUFFICES ASSUME SimInvariant, RunnerStep PROVE SimInvariant'
  OBVIOUS
<1>1. /\ GatesOf(launch, proc) /\ NodesOf(startup, lifecycle, witnessed, proc)
      /\ RunnerOf(trainer, goals) /\ ResultsTrue(results, trainer, goals)
  BY SimInvariantIs
<1>2. /\ trainer = [pc |-> trainer.pc, stage |-> trainer.stage, route |-> trainer.route,
                    perception |-> trainer.perception, results |-> trainer.results]
      /\ DOMAIN goals = DOMAIN Segments /\ trainer.stage \in DOMAIN Segments
      /\ trainer.pc \notin {"load", "done"} => trainer.route = Segments
  BY <1>1 DEF RunnerOf
<1>3. <<>> \in Seq(ToSet(<<>>))
  BY EmptySeq
<1>4. CASE LoadRoute
  <2>1. /\ Up("auto_train") /\ trainer.pc = "load"
        /\ UNCHANGED <<startup, lifecycle, witnessed, goals, results>>
    BY <1>4 DEF LoadRoute, Runner, RunnerOnly
  <2>2. CASE /\ trainer' = [trainer EXCEPT !.pc = "servers", !.route = Segments]
             /\ UNCHANGED <<launch, proc>>
    <3>1. trainer' = [pc |-> "servers", stage |-> trainer.stage, route |-> Segments,
                      perception |-> trainer.perception, results |-> trainer.results]
      BY <1>2, <2>2
    <3>2. QED
      BY <2>1, <2>2, <3>1, RunnerGoesOn DEF RunnerPcs
  <2>3. CASE TrainerExits("failed") /\ UNCHANGED trainer
    BY <1>1, <2>1, <2>3, TrainerExitKeeps, RunnerMoves
  <2>4. QED
    BY <1>4, <2>2, <2>3 DEF LoadRoute
<1>5. CASE FindServers
  <2>1. /\ Up("auto_train") /\ trainer.pc = "servers"
        /\ UNCHANGED <<startup, lifecycle, witnessed, goals>>
    BY <1>5 DEF FindServers, Runner, RunnerOnly
  <2>2. CASE trainer' = [trainer EXCEPT !.pc = "perception"] /\ UNCHANGED <<launch, proc, results>>
    <3>1. trainer' = [pc |-> "perception", stage |-> trainer.stage, route |-> trainer.route,
                      perception |-> trainer.perception, results |-> trainer.results]
      BY <1>2, <2>2
    <3>2. QED
      BY <1>2, <2>1, <2>2, <3>1, RunnerGoesOn DEF RunnerPcs
  <2>3. CASE SavesAndExits("failed", <<>>)
    BY <1>2, <1>3, <2>1, <2>3, SaveKeeps
  <2>4. QED
    BY <1>5, <2>2, <2>3 DEF FindServers
<1>6. CASE HearPerception
  <2>1. /\ trainer.pc \in {"perception", "accept", "result"}
        /\ trainer' = [trainer EXCEPT !.perception = perception]
        /\ UNCHANGED <<launch, proc, startup, lifecycle, witnessed, goals, results>>
    BY <1>6 DEF HearPerception, RunnerOnly
  <2>2. trainer' = [pc |-> trainer.pc, stage |-> trainer.stage, route |-> trainer.route,
                    perception |-> perception, results |-> trainer.results]
    BY <1>2, <2>1
  <2>3. QED
    BY <1>2, <2>1, <2>2, RunnerGoesOn DEF RunnerPcs
<1>7. CASE PerceptionReady
  <2>1. /\ trainer.pc = "perception" /\ trainer.perception.ready
        /\ trainer' = [trainer EXCEPT !.pc = "send"]
        /\ UNCHANGED <<launch, proc, startup, lifecycle, witnessed, goals, results>>
    BY <1>7 DEF PerceptionReady, Runner, HeardReady, RunnerOnly
  <2>2. trainer' = [pc |-> "send", stage |-> trainer.stage, route |-> trainer.route,
                    perception |-> trainer.perception, results |-> trainer.results]
    BY <1>2, <2>1
  <2>3. QED
    BY <1>2, <2>1, <2>2, RunnerGoesOn DEF RunnerPcs
<1>8. CASE PerceptionTimesOut
  BY <1>2, <1>3, <1>8, SaveKeeps DEF PerceptionTimesOut, Runner, RunnerOnly
<1>9. CASE SendGoal
  <2>1. /\ trainer.pc = "send" /\ goals' = [goals EXCEPT ![trainer.stage] = "sent"]
        /\ trainer' = [trainer EXCEPT !.pc = "accept"]
        /\ UNCHANGED <<launch, proc, startup, lifecycle, witnessed, results>>
    BY <1>9 DEF SendGoal, Runner, RunnerOnly
  <2>2. trainer' = [pc |-> "accept", stage |-> trainer.stage, route |-> trainer.route,
                    perception |-> trainer.perception, results |-> trainer.results]
    BY <1>2, <2>1
  <2>3. DOMAIN goals' = DOMAIN goals /\ \A k \in DOMAIN goals \ {trainer.stage} : goals'[k] = goals[k]
    BY <2>1
  <2>4. QED
    BY <1>2, <2>1, <2>2, <2>3, RunnerGoesOn DEF RunnerPcs
<1>10. CASE GoalAccepted
  <2>1. /\ trainer.pc = "accept" /\ trainer' = [trainer EXCEPT !.pc = "result"]
        /\ UNCHANGED <<launch, proc, startup, lifecycle, witnessed, goals, results>>
    BY <1>10 DEF GoalAccepted, Runner, RunnerOnly
  <2>2. trainer' = [pc |-> "result", stage |-> trainer.stage, route |-> trainer.route,
                    perception |-> trainer.perception, results |-> trainer.results]
    BY <1>2, <2>1
  <2>3. QED
    BY <1>2, <2>1, <2>2, RunnerGoesOn DEF RunnerPcs
<1>11. CASE GoalNotAccepted
  <2> DEFINE evidence == Evidence("failed", {})
  <2>1. Up("auto_train") /\ trainer.pc = "accept" /\ SavesAndExits("failed", evidence)
        /\ UNCHANGED <<startup, lifecycle, witnessed, goals>>
    BY <1>11 DEF GoalNotAccepted, Runner, RunnerOnly
  <2>2. evidence \in Seq(ToSet(evidence))
    BY <1>1, <2>1, EvidenceIs
  <2> HIDE DEF evidence
  <2>3. QED
    BY <1>2, <2>1, <2>2, SaveKeeps
<1>12. CASE ResultTimesOut
  <2> DEFINE evidence == Evidence("failed", {})
  <2>1. Up("auto_train") /\ trainer.pc = "result" /\ SavesAndExits("failed", evidence)
        /\ goals' = [goals EXCEPT ![trainer.stage] = "canceling"] /\ UNCHANGED <<startup, lifecycle, witnessed>>
    BY <1>12 DEF ResultTimesOut, Runner, RunnerOnly
  <2>2. evidence \in Seq(ToSet(evidence))
    BY <1>1, <2>1, EvidenceIs
  <2> HIDE DEF evidence
  <2>3. DOMAIN goals' = DOMAIN Segments
    BY <1>2, <2>1
  <2>4. QED
    BY <1>2, <2>1, <2>2, <2>3, SaveKeeps
<1>13. ASSUME NEW seen, GoalEnds(seen) PROVE SimInvariant'
  <2> DEFINE outcome == OutcomeOf(goals[trainer.stage])
             evidence == Evidence(outcome, seen)
  <2>1. /\ Up("auto_train") /\ trainer.pc = "result"
        /\ UNCHANGED <<startup, lifecycle, witnessed, goals>>
    BY <1>13 DEF GoalEnds, Runner, RunnerOnly
  <2>2. /\ evidence \in Seq(ToSet(evidence)) /\ Len(evidence) = trainer.stage
        /\ outcome = "succeeded" /\ goals[trainer.stage] = "succeeded" =>
             \A k \in 1 .. trainer.stage : goals[k] = "succeeded" /\ Evident(evidence[k], Segments[k])
    BY <1>1, <2>1, EvidenceIs
  <2>3. outcome = "succeeded" => goals[trainer.stage] = "succeeded"
    BY DEF OutcomeOf
  <2>4. trainer.stage \in 1 .. Len(Segments) /\ Len(Segments) \in Nat /\ DOMAIN Segments = 1 .. Len(Segments)
    BY <1>2, SegmentsAre
  <2>5. IF outcome = "succeeded" /\ trainer.stage < Len(Segments)
        THEN /\ trainer' = [trainer EXCEPT !.pc = "send", !.stage = @ + 1, !.results = evidence]
             /\ UNCHANGED <<launch, proc, results>>
        ELSE SavesAndExits(IF outcome = "succeeded" THEN "completed" ELSE "failed", evidence)
    BY <1>13 DEF GoalEnds
  <2> HIDE DEF outcome, evidence
  <2>6. CASE outcome = "succeeded" /\ trainer.stage < Len(Segments)
    <3>1. trainer' = [pc |-> "send", stage |-> trainer.stage + 1, route |-> trainer.route,
                      perception |-> trainer.perception, results |-> evidence]
      BY <1>2, <2>5, <2>6
    <3>2. RunnerOf(trainer', goals')
      BY <1>2, <2>1, <2>2, <2>3, <2>4, <2>6, <3>1 DEF RunnerOf, RunnerPcs
    <3>3. ResultsTrue(results', trainer', goals')
      BY <1>1, <2>1, <2>5, <2>6 DEF ResultsTrue
    <3>4. QED
      BY <1>1, <2>1, <2>5, <2>6, <3>2, <3>3, RunnerMoves
  <2>7. CASE ~ (outcome = "succeeded" /\ trainer.stage < Len(Segments))
    <3> DEFINE status == IF outcome = "succeeded" THEN "completed" ELSE "failed"
    <3>1. SavesAndExits(status, evidence)
      BY <2>5, <2>7
    <3>2. status = "completed" =>
            /\ Len(evidence) = Len(Segments)
            /\ \A k \in DOMAIN Segments :
                 goals'[k] = "succeeded" /\ Evident(evidence[k], Segments[k])
      BY <2>1, <2>2, <2>3, <2>4, <2>7
    <3> HIDE DEF status
    <3>3. QED
      BY <1>2, <2>1, <2>2, <3>1, <3>2, SaveKeeps
  <2>8. QED
    BY <2>6, <2>7
<1>14. QED
  BY <1>4, <1>5, <1>6, <1>7, <1>8, <1>9, <1>10, <1>11, <1>12, <1>13 DEF RunnerStep

\* All the steps of a bring-up.
LEMMA SimKeeps == SimInvariant /\ SimNext => SimInvariant'
  BY LaunchServiceKeeps, HelperKeeps, ManagerKeeps, RunnerKeeps, MonitorKeeps, Nav2Keeps
  DEF SimNext

\* The helper and the runner touch no goal that succeeded once a run is completed, nor
\* its results.
LEMMA CompletedStays ==
  ASSUME SimInvariant, SimNext, results.status = "completed"
  PROVE  /\ results' = results
         /\ \A k \in DOMAIN Segments : goals[k] = "succeeded" => goals'[k] = "succeeded"
<1>1. trainer.pc = "done"
  BY SimInvariantIs DEF ResultsTrue
<1>2. ~ RunnerStep
  BY <1>1 DEF RunnerStep, LoadRoute, FindServers, HearPerception, PerceptionReady,
     PerceptionTimesOut, SendGoal, GoalAccepted, GoalNotAccepted, ResultTimesOut, GoalEnds, Runner
<1>3. LaunchService => UNCHANGED <<goals, results>>
  BY DEF LaunchService, Launch, CleanupExits, SensorPreflightExits, SensorTfPreflightExits,
     GateExits, TimerFires, ShutsDown
<1>4. HelperStep => UNCHANGED <<goals, results>>
  BY DEF HelperStep, SendStartup, StartupGivesUp, ReadReply, BeginProbe, ProbeEnds, NodeAnswers,
     HelperOnly
<1>5. /\ ManagerStep => UNCHANGED <<goals, results>>
      /\ \A n \in Nav2Nodes : NodeLeaves(n) \/ NodeReturns(n) => UNCHANGED <<goals, results>>
  BY DEF ManagerStep, ManagerGoesOn, ManagerMoves, NodeLeaves, NodeReturns
<1>6. ASSUME NEW status, MonitorPublishes(status) PROVE UNCHANGED <<goals, results>>
  BY <1>6 DEF MonitorPublishes
<1>7. ASSUME NEW k \in DOMAIN Segments, Nav2Serves(k)
      PROVE  /\ results' = results
             /\ \A j \in DOMAIN Segments : goals[j] = "succeeded" => goals'[j] = "succeeded"
  BY <1>7, Nav2Keeps DEF Nav2Serves
<1>8. QED
  BY <1>2, <1>3, <1>4, <1>5, <1>6, <1>7 DEF SimNext

-----------------------------------------------------------------------------
(* The trials. *)

\* The validator expects the tree that the runner chooses.
LEMMA TreeIsExpected ==
  ASSUME NEW goalsOfSegment
  PROVE  Tree(goalsOfSegment) = ExpectedTree(goalsOfSegment)
<1> DEFINE terminal == Last(goalsOfSegment)
           many == Len(goalsOfSegment) > 1
<1>1. CASE many /\ terminal.task = "return"
  BY <1>1 DEF Tree, ExpectedTree
<1>2. CASE many /\ terminal.task # "return" /\ terminal.profile = "precise"
  BY <1>2 DEF Tree, ExpectedTree
<1>3. CASE many /\ terminal.task # "return" /\ terminal.profile # "precise"
  BY <1>3 DEF Tree, ExpectedTree
<1>4. CASE ~ many /\ terminal.profile = "precise"
  BY <1>4 DEF Tree, ExpectedTree
<1>5. CASE ~ many /\ terminal.profile # "precise"
  BY <1>5 DEF Tree, ExpectedTree
<1>6. QED
  BY <1>1, <1>2, <1>3, <1>4, <1>5

\* What the validator says of the results of a bring-up: it accepts completed ones only,
\* and refuses completed ones only for what was seen of the run.
LEMMA AcceptanceIsRight ==
  ASSUME SimInvariant
  PROVE  /\ Accepts(results) =>
              results.status = "completed" /\ \A k \in DOMAIN Segments : goals[k] = "succeeded"
         /\ results.status = "completed" /\ ~ Accepts(results) =>
              \/ ~ PerceptionProven(results.perception)
              \/ \E r \in ToSet(results.results) : ~ DroveForward(r.seen)
<1>1. ResultsTrue(results, trainer, goals)
  BY SimInvariantIs
<1>2. Accepts(results) =>
        results.status = "completed" /\ \A k \in DOMAIN Segments : goals[k] = "succeeded"
  BY <1>1 DEF Accepts, ResultsTrue
<1>3. ASSUME results.status = "completed", PerceptionProven(results.perception),
             \A r \in ToSet(results.results) : DroveForward(r.seen)
      PROVE  Accepts(results)
  <2>1. /\ results.route = Segments /\ Len(results.results) = Len(Segments)
        /\ results.results \in Seq(ToSet(results.results))
        /\ \A k \in DOMAIN Segments : Evident(results.results[k], Segments[k])
    BY <1>1, <1>3 DEF ResultsTrue
  <2>2. DOMAIN results.results = DOMAIN Segments
    BY <2>1, SegmentsAre, LenProperties
  <2>3. ASSUME NEW k \in DOMAIN Segments PROVE ResultFits(results.results[k], Segments[k])
    <3>1. results.results[k] \in ToSet(results.results)
      BY <2>2, <2>3 DEF ToSet
    <3>2. Evident(results.results[k], Segments[k]) /\ DroveForward(results.results[k].seen)
      BY <1>3, <2>1, <2>3, <3>1
    <3>3. QED
      BY <3>2, TreeIsExpected DEF ResultFits, Evident
  <2>4. QED
    BY <1>3, <2>1, <2>3 DEF Accepts, RouteMatches
<1>4. QED
  BY <1>2, <1>3

\* A bring-up begins anew with every run.
LEMMA RunStarts ==
  ASSUME launch' = NewLaunch, proc' = [p \in Gates |-> "none"],
         startup' = NewStartup, lifecycle' = [n \in Nav2Nodes |-> "unconfigured"], witnessed' = {},
         trainer' = NewTrainer, goals' = [k \in DOMAIN Segments |-> "none"], results' = NoResults
  PROVE  SimInvariant'
  BY BringUpStarts, SimInvariantNext

\* A step that leaves the simulation as it is.
LEMMA SimStays == SimInvariant /\ UNCHANGED simVars => SimInvariant'
<1> SUFFICES ASSUME SimInvariant, UNCHANGED simVars PROVE SimInvariant'
  OBVIOUS
<1>1. /\ GatesOf(launch, proc) /\ NodesOf(startup, lifecycle, witnessed, proc)
      /\ RunnerOf(trainer, goals) /\ ResultsTrue(results, trainer, goals)
  BY SimInvariantIs
<1>2. QED
  BY <1>1, SimInvariantNext DEF simVars

LEMMA TrialInitInvariant == Init => TrialInvariant
<1> SUFFICES ASSUME Init PROVE TrialInvariant
  OBVIOUS
<1>1. SimInvariant
  BY BringUpStarts, SimInvariantIs DEF Init, SimInit
<1>2. TrialTyped /\ LockFollows /\ VerdictFollows /\ VerdictIsRight
  BY DEF Init, TrialTyped, LockFollows, VerdictFollows, VerdictIsRight
<1>3. QED
  BY <1>1, <1>2 DEF TrialInvariant

\* The inductive step, for each action of the trials.
LEMMA TrialNextInvariant == TrialInvariant /\ [Next]_vars => TrialInvariant'
<1> SUFFICES ASSUME TrialInvariant, [Next]_vars PROVE TrialInvariant'
  OBVIOUS
<1>1. /\ SimInvariant /\ TrialTyped /\ LockFollows /\ VerdictFollows /\ VerdictIsRight
  BY DEF TrialInvariant
<1>2. /\ trial = [pc |-> trial.pc, runs |-> trial.runs, alive |-> trial.alive,
                  snapshot |-> trial.snapshot, json |-> trial.json, verdict |-> trial.verdict]
      /\ trial.pc \in {"idle", "prepare", "poll", "judged"}
  BY <1>1 DEF TrialTyped
<1>3. ASSUME UNCHANGED <<simVars, file, installed, trial>>, UNCHANGED lock PROVE TrialInvariant'
  <2>1. SimInvariant'
    BY <1>1, <1>3, SimStays
  <2>2. TrialTyped' /\ LockFollows' /\ VerdictFollows' /\ VerdictIsRight'
    BY <1>1, <1>3 DEF simVars, TrialTyped, LockFollows, VerdictFollows, VerdictIsRight
  <2>3. QED
    BY <2>1, <2>2 DEF TrialInvariant
<1>4. CASE SimStep
  <2>1. SimNext /\ UNCHANGED <<file, installed, lock, trial>>
    BY <1>4 DEF SimStep, trialVars
  <2>2. SimInvariant'
    BY <1>1, <2>1, SimKeeps
  <2>3. TrialTyped' /\ LockFollows'
    BY <1>1, <2>1 DEF TrialTyped, LockFollows
  <2>4. VerdictFollows'
    BY <1>1, <2>1, CompletedStays DEF VerdictFollows
  <2>5. results'.status = "completed" => \A k \in DOMAIN Segments : goals'[k] = "succeeded"
    BY <2>2 DEF SimInvariant, ResultsFollow
  <2>6. VerdictIsRight'
    BY <1>1, <2>1, <2>4, <2>5 DEF VerdictIsRight, VerdictFollows
  <2>7. QED
    BY <2>2, <2>3, <2>4, <2>6 DEF TrialInvariant
<1>5. CASE LoadParams
  BY <1>3, <1>5 DEF LoadParams
<1>6. ASSUME NEW p \in Params, NEW value \in Values, SaveParams(p, value) PROVE TrialInvariant'
  <2>1. UNCHANGED <<simVars, installed, lock, trial>>
    BY <1>6 DEF SaveParams
  <2>2. CASE lock = Nobody
    <3>1. trial.pc = "idle"
      BY <1>1, <2>2 DEF LockFollows, Nobody
    <3>2. SimInvariant'
      BY <1>1, <2>1, SimStays
    <3>3. TrialTyped' /\ LockFollows' /\ VerdictFollows' /\ VerdictIsRight'
      BY <1>1, <2>1, <3>1 DEF TrialTyped, LockFollows, VerdictFollows, VerdictIsRight
    <3>4. QED
      BY <3>2, <3>3 DEF TrialInvariant
  <2>3. CASE lock # Nobody
    BY <1>3, <1>6, <2>1, <2>3 DEF SaveParams, MayLock
  <2>4. QED
    BY <2>2, <2>3
<1>7. CASE StartTrial
  <2>1. /\ trial' = [pc |-> "prepare", runs |-> trial.runs, alive |-> trial.alive,
                     snapshot |-> trial.snapshot, json |-> trial.json, verdict |-> trial.verdict]
        /\ lock' = "trial" /\ installed' = file /\ UNCHANGED <<simVars, file>>
    BY <1>2, <1>7 DEF StartTrial
  <2>2. SimInvariant'
    BY <1>1, <2>1, SimStays
  <2>3. TrialTyped' /\ LockFollows' /\ VerdictFollows' /\ VerdictIsRight'
    BY <2>1 DEF TrialTyped, LockFollows, VerdictFollows, VerdictIsRight
  <2>4. QED
    BY <2>2, <2>3 DEF TrialInvariant
<1>8. CASE StartRun
  <2>1. /\ trial' = [pc |-> "poll", runs |-> trial.runs + 1, alive |-> TRUE,
                     snapshot |-> file, json |-> NoResults, verdict |-> "none"]
        /\ trial.pc = "prepare" /\ UNCHANGED <<file, installed, lock>>
    BY <1>2, <1>8 DEF StartRun, Shell
  <2>2. SimInvariant'
    BY <1>8, RunStarts DEF StartRun
  <2>3. TrialTyped' /\ LockFollows' /\ VerdictFollows' /\ VerdictIsRight'
    BY <1>1, <2>1 DEF TrialTyped, LockFollows, VerdictFollows, VerdictIsRight
  <2>4. QED
    BY <2>2, <2>3 DEF TrialInvariant
<1>9. CASE JudgeRun
  <2> DEFINE verdict == IF results # NoResults /\ Accepts(results) THEN "accepted" ELSE "failed"
  <2>1. /\ trial' = [pc |-> "judged", runs |-> trial.runs, alive |-> trial.alive,
                     snapshot |-> trial.snapshot, json |-> results, verdict |-> verdict]
        /\ trial.pc = "poll" /\ UNCHANGED <<simVars, file, installed, lock>>
    BY <1>2, <1>9 DEF JudgeRun, Shell
  <2>2. /\ verdict = "accepted" => Accepts(results)
        /\ verdict = "failed" /\ results # NoResults => ~ Accepts(results)
    OBVIOUS
  <2> HIDE DEF verdict
  <2>3. SimInvariant'
    BY <1>1, <2>1, SimStays
  <2>4. TrialTyped' /\ LockFollows'
    BY <1>1, <2>1 DEF TrialTyped, LockFollows
  <2>5. results' = results /\ goals' = goals
    BY <2>1 DEF simVars
  <2>6. VerdictFollows'
    BY <1>1, <2>1, <2>2, <2>5, AcceptanceIsRight DEF VerdictFollows
  <2>7. VerdictIsRight'
    BY <1>1, <2>1, <2>2, <2>5, AcceptanceIsRight DEF VerdictIsRight, LockFollows
  <2>8. QED
    BY <2>3, <2>4, <2>6, <2>7 DEF TrialInvariant
<1>10. CASE EndRun
  <2>1. /\ trial' = [pc |-> "prepare", runs |-> trial.runs, alive |-> FALSE,
                     snapshot |-> trial.snapshot, json |-> trial.json, verdict |-> trial.verdict]
        /\ trial.pc = "judged" /\ UNCHANGED <<simVars, file, installed, lock>>
    BY <1>2, <1>10 DEF EndRun, Shell
  <2>2. SimInvariant'
    BY <1>1, <2>1, SimStays
  <2>3. TrialTyped' /\ LockFollows' /\ VerdictFollows' /\ VerdictIsRight'
    BY <1>1, <2>1 DEF TrialTyped, LockFollows, VerdictFollows, VerdictIsRight
  <2>4. QED
    BY <2>2, <2>3 DEF TrialInvariant
<1>11. CASE EndTrial
  <2>1. /\ trial' = [pc |-> "idle", runs |-> trial.runs, alive |-> trial.alive,
                     snapshot |-> trial.snapshot, json |-> trial.json, verdict |-> trial.verdict]
        /\ UNCHANGED <<simVars, file, installed>>
    BY <1>2, <1>11 DEF EndTrial
  <2>2. SimInvariant'
    BY <1>1, <2>1, SimStays
  <2>3. TrialTyped' /\ LockFollows' /\ VerdictFollows' /\ VerdictIsRight'
    BY <2>1 DEF TrialTyped, LockFollows, VerdictFollows, VerdictIsRight
  <2>4. QED
    BY <2>2, <2>3 DEF TrialInvariant
<1>12. CASE UNCHANGED vars
  BY <1>3, <1>12 DEF vars, trialVars
<1>13. QED
  BY <1>4, <1>5, <1>6, <1>7, <1>8, <1>9, <1>10, <1>11, <1>12
  DEF Next, TunerStep, ShellStep

\* The invariant of the trials, in every reachable state: the gates of sim.launch.py
\* follow each other, what a helper ended well on was seen active in its last probe, what
\* the runner wrote is what Nav2 drove, and while a trial holds the lock nobody changes
\* the parameters.
THEOREM TrialInvariantHolds == Spec => []TrialInvariant
<1>1. QED
  BY TrialInitInvariant, TrialNextInvariant, PTL DEF Spec

\* The verdict of sim_tune.sh is right both ways: a run is accepted only when Nav2
\* succeeded at every segment with the parameters of the snapshot, and a completed run is
\* refused only for what was seen of it.
THEOREM VerdictIsAlwaysRight == Spec => []VerdictIsRight
<1>1. TrialInvariant => VerdictIsRight
  BY DEF TrialInvariant
<1>2. QED
  BY <1>1, TrialInvariantHolds, PTL

\* Which steps of a bring-up send a goal: only the runner's, for its own segment, when
\* it is ready to send.
LEMMA WhoSends ==
  ASSUME SimInvariant, SimNext, NEW k \in DOMAIN Segments, SendsGoal(k)
  PROVE  Up("auto_train") /\ trainer.pc = "send" /\ trainer.stage = k
<1>1. LaunchService => UNCHANGED goals
  BY DEF LaunchService, Launch, CleanupExits, SensorPreflightExits, SensorTfPreflightExits,
     GateExits, TimerFires, ShutsDown
<1>2. HelperStep => UNCHANGED goals
  BY DEF HelperStep, SendStartup, StartupGivesUp, ReadReply, BeginProbe, ProbeEnds, NodeAnswers,
     HelperOnly
<1>3. /\ ManagerStep => UNCHANGED goals
      /\ \A n \in Nav2Nodes : NodeLeaves(n) \/ NodeReturns(n) => UNCHANGED goals
  BY DEF ManagerStep, ManagerGoesOn, ManagerMoves, NodeLeaves, NodeReturns
<1>4. ~ \E status \in MonitorStatuses : MonitorPublishes(status)
  BY DEF MonitorPublishes, SendsGoal
<1>5. ~ \E j \in DOMAIN Segments : Nav2Serves(j)
  BY Nav2Keeps DEF SendsGoal
<1>6. RunnerStep => SendGoal \/ ResultTimesOut \/ UNCHANGED goals
  BY DEF RunnerStep, LoadRoute, FindServers, HearPerception, PerceptionReady,
     PerceptionTimesOut, GoalAccepted, GoalNotAccepted, GoalEnds
<1>7. DOMAIN goals = DOMAIN Segments
  BY SimInvariantIs DEF RunnerOf
<1>8. ~ ResultTimesOut
  BY <1>7 DEF ResultTimesOut, SendsGoal
<1>9. SendGoal
  BY <1>1, <1>2, <1>3, <1>4, <1>5, <1>6, <1>8 DEF SimNext, SendsGoal
<1>10. QED
  BY <1>7, <1>9 DEF SendGoal, Runner, SendsGoal

\* Every goal of the route is sent behind all gates, after one probe of this launch's
\* helper saw every node active, with the parameters of this launch, after the goal before
\* it succeeded and, for the first, when the monitor's last word was ready.  Whether the
\* nodes are still active when the goal is sent is nobody's question, and not claimed.
THEOREM RouteAlwaysStartsVerified == Spec => RouteStartsVerified
<1> DEFINE Verified(k) ==
      /\ witnessed = Nav2Nodes
      /\ \A p \in {"sensor_preflight", "tf_preflight", "lifecycle_startup"} : proc[p] = "ok"
      /\ launch.static_tf /\ launch.params = "whole"
      /\ k = 1 => trainer.perception.ready
      /\ \A j \in 1 .. k - 1 : goals[j] = "succeeded"
<1>1. ASSUME SimInvariant, Up("auto_train"), trainer.pc = "send" PROVE Verified(trainer.stage)
  <2>1. /\ GatesOf(launch, proc) /\ NodesOf(startup, lifecycle, witnessed, proc) /\ RunnerOf(trainer, goals)
    BY <1>1, SimInvariantIs
  <2>2. proc["lifecycle_startup"] = "ok"
    BY <1>1, <2>1 DEF GatesOf, ReachedIn, Up
  <2>3. proc["tf_preflight"] = "ok"
    BY <2>1, <2>2 DEF GatesOf, ReachedIn
  <2>4. proc["sensor_preflight"] = "ok"
    BY <2>1, <2>3 DEF GatesOf, ReachedIn
  <2>5. proc["cleanup"] \in {"ok", "failed"}
    BY <2>1, <2>4 DEF GatesOf, ReachedIn
  <2>6. launch.params = "whole" /\ launch.static_tf
    BY <1>1, <2>1, <2>4, <2>5 DEF GatesOf, LaunchType, Up
  <2>7. witnessed = Nav2Nodes
    BY <2>1, <2>2 DEF NodesOf
  <2>8. /\ trainer.stage = 1 => trainer.perception.ready
        /\ \A j \in 1 .. trainer.stage - 1 : goals[j] = "succeeded"
    BY <1>1, <2>1 DEF RunnerOf
  <2>9. QED
    BY <2>2, <2>3, <2>4, <2>6, <2>7, <2>8
<1>2. ASSUME TrialInvariant, Next, NEW k \in DOMAIN Segments, SendsGoal(k) PROVE Verified(k)
  <2>1. SimInvariant
    BY <1>2 DEF TrialInvariant
  <2>2. ~ TunerStep
    BY <1>2 DEF TunerStep, LoadParams, SaveParams, simVars, SendsGoal
  <2>3. ~ ShellStep
    BY <1>2 DEF ShellStep, StartTrial, StartRun, JudgeRun, EndRun, EndTrial, simVars, SendsGoal
  <2>4. SimNext
    BY <1>2, <2>2, <2>3 DEF Next, SimStep
  <2>5. Up("auto_train") /\ trainer.pc = "send" /\ trainer.stage = k
    BY <1>2, <2>1, <2>4, WhoSends
  <2>6. QED
    BY <1>1, <2>1, <2>5
<1>3. TrialInvariant /\ [Next]_vars =>
        [\A k \in DOMAIN Segments : trial.alive /\ SendsGoal(k) => Verified(k)]_vars
  BY <1>2
<1>4. QED
  BY <1>3, TrialInvariantHolds, PTL DEF Spec, RouteStartsVerified
=============================================================================
