------------------------------ MODULE CameraProofs ------------------------------
(***************************************************************************)
(* What is proved of the three parts that deal with what the camera and    *)
(* the lidar see.                                                          *)
(*                                                                         *)
(* The relay of the depth camera: DepthInvariant is inductive; the points  *)
(* that it sends are counted through a surjection (SpreadIsSmall).         *)
(*                                                                         *)
(* The calls of the vision services: VisionInvariant is inductive.  What   *)
(* carries the number of the current call is of that call, and nothing     *)
(* carries the number of a call that was not made yet, so that answers to  *)
(* calls that were given up may be under way in any number and order.      *)
(*                                                                         *)
(* The perception monitor of the simulation: PerceptionInvariant is        *)
(* inductive.  A registration counts cones that lie on cones; a frame that *)
(* is displaced has fewer of them (MatchedTellsFrame).                     *)
(***************************************************************************)
EXTENDS Vision, DepthRelay, SimPerception, FiniteSetTheorems, SequenceTheorems, TLAPS

-----------------------------------------------------------------------------
(* The calls of the mission.  Their invariant again, part by part as predicates of the
   mission thread c, the requests q, the server s, the answers w. *)

TaskOf(c) == c.plan[c.at]
ThreadPhases == {"begin", "starting", "await", "delay", "done"}
ClientOf(c) ==
  /\ c.plan \in Plans /\ c.id \in Nat /\ c.notBefore \in Nat /\ c.at \in Nat \ {0}
  /\ c.phase \in ThreadPhases /\ (c.phase # "done" => c.at <= Len(c.plan))
  /\ c = [plan |-> c.plan, phase |-> c.phase, at |-> c.at, attempt |-> c.attempt, id |-> c.id,
          notBefore |-> c.notBefore, wake |-> c.wake]
OfCall(request, c) ==
  request.id = c.id => request.task = TaskOf(c) /\ request.notBefore = c.notBefore
RequestOf(request, c) ==
  request \in Request /\ request.id <= c.id /\ (c.phase = "await" => OfCall(request, c))
QueueOf(q, c) == q \in Seq(Request) /\ \A i \in DOMAIN q : RequestOf(q[i], c)
ServerOf(s, c) ==
  /\ s.phase \in {"idle", "sample", "backend"} /\ s.request \in Request /\ Sample(s.sample)
  /\ s = [phase |-> s.phase, request |-> s.request, deadline |-> s.deadline, sample |-> s.sample]
  /\ s.phase # "idle" => RequestOf(s.request, c)
  /\ s.phase = "backend" => s.request.task = "vlm" /\ s.sample.received >= s.request.notBefore
Answering(a, c) ==
  a.id = c.id /\ a.ok => /\ a.sample.received >= c.notBefore
                         /\ TaskOf(c) = "vlm" => a.text \in Replies /\ Description(a.text) # ""
AnswerOf(a, c) ==
  /\ a.id \in Nat /\ a.ok \in BOOLEAN /\ Sample(a.sample) /\ a.id <= c.id
  /\ c.phase = "await" => Answering(a, c)
BuffersOf(l, cs) ==
  /\ DOMAIN l = Topics /\ \A topic \in Topics : Sample(l[topic])
  /\ \A c \in cs : Sample(c) /\ c.topic \in Topics

LEMMA VisionInvariantIs ==
  VisionInvariant <=> /\ now \in Nat /\ ClientOf(client) /\ BuffersOf(latest, callbacks)
                      /\ QueueOf(requests, client) /\ ServerOf(server, client)
                      /\ \A a \in answers : AnswerOf(a, client)
<1> USE DEF VisionInvariant, VisionTyped, NumbersFollow, CallFollows, IsOfCall, AnswersCall,
            Calling, Task, ClientOf, ThreadPhases, TaskOf, OfCall, RequestOf, QueueOf, ServerOf,
            Answering, AnswerOf, BuffersOf
<1>1. ASSUME VisionInvariant
      PROVE  /\ now \in Nat /\ ClientOf(client) /\ BuffersOf(latest, callbacks)
             /\ QueueOf(requests, client) /\ ServerOf(server, client)
             /\ \A a \in answers : AnswerOf(a, client)
  <2>1. \A i \in DOMAIN requests : requests[i] \in Request
    BY <1>1, LenProperties, ElementOfSeq
  <2>2. QueueOf(requests, client)
    BY <1>1, <2>1
  <2>3. ServerOf(server, client)
    BY <1>1
  <2>4. ClientOf(client) /\ now \in Nat /\ BuffersOf(latest, callbacks)
    BY <1>1
  <2>5. \A a \in answers : AnswerOf(a, client)
    BY <1>1
  <2>6. QED
    BY <2>2, <2>3, <2>4, <2>5
<1>2. ASSUME now \in Nat, ClientOf(client), BuffersOf(latest, callbacks),
             QueueOf(requests, client), ServerOf(server, client),
             \A a \in answers : AnswerOf(a, client)
      PROVE  VisionInvariant
  <2>1. VisionTyped
    BY <1>2
  <2>2. NumbersFollow
    BY <1>2
  <2>3. CallFollows
    BY <1>2
  <2>4. QED
    BY <2>1, <2>2, <2>3
<1>3. QED
  BY <1>1, <1>2

\* The same of the next state.
LEMMA VisionInvariantNext ==
  ASSUME now' \in Nat, ClientOf(client'), BuffersOf(latest', callbacks'),
         QueueOf(requests', client'), ServerOf(server', client'),
         \A a \in answers' : AnswerOf(a, client')
  PROVE  VisionInvariant'
<1> USE DEF VisionInvariant, VisionTyped, NumbersFollow, CallFollows, IsOfCall, AnswersCall,
            Calling, Task, ClientOf, ThreadPhases, TaskOf, OfCall, RequestOf, QueueOf, ServerOf,
            Answering, AnswerOf, BuffersOf
<1>1. VisionTyped'
  OBVIOUS
<1>2. NumbersFollow'
  OBVIOUS
<1>3. CallFollows'
  OBVIOUS
<1>4. QED
  BY <1>1, <1>2, <1>3

\* A thread has a task until it is done.
LEMMA TaskIsNamed ==
  ASSUME NEW c, ClientOf(c), c.phase # "done"
  PROVE  TaskOf(c) \in {"qr", "vlm"}
<1>1. c.plan \in Seq({"qr", "vlm"}) /\ c.at \in 1 .. Len(c.plan)
  BY VisionAssumption DEF ClientOf
<1>2. QED
  BY <1>1, ElementOfSeq DEF TaskOf

\* The constants of the times are numbers.
LEMMA VisionConstants == Transport \in Nat
  BY VisionAssumption

\* A thread that goes on and does not await the call any more, or that makes a new one,
\* leaves what is under way in order: nothing carries the number of the new call.
LEMMA MovedOn ==
  ASSUME NEW c, NEW d, ClientOf(c), ClientOf(d),
         \/ d.phase # "await" /\ d.id = c.id
         \/ d.id = c.id + 1,
         NEW q, NEW s, NEW w, QueueOf(q, c), ServerOf(s, c), \A a \in w : AnswerOf(a, c)
  PROVE  QueueOf(q, d) /\ ServerOf(s, d) /\ \A a \in w : AnswerOf(a, d)
<1>1. c.id \in Nat /\ d.id \in Nat
  BY DEF ClientOf
<1>2. ASSUME NEW r, RequestOf(r, c) PROVE RequestOf(r, d)
  <2>1. r.id \in Nat /\ r.id <= c.id
    BY <1>2 DEF RequestOf, Request
  <2>2. QED
    BY <1>1, <1>2, <2>1 DEF RequestOf, OfCall
<1>3. QueueOf(q, d)
  BY <1>2 DEF QueueOf
<1>4. ServerOf(s, d)
  BY <1>2 DEF ServerOf
<1>5. ASSUME NEW a \in w PROVE AnswerOf(a, d)
  <2>1. AnswerOf(a, c)
    OBVIOUS
  <2>2. a.id \in Nat /\ a.id <= c.id
    BY <2>1 DEF AnswerOf
  <2>3. a.id <= d.id /\ (d.phase # "await" \/ a.id # d.id)
    BY <1>1, <2>2
  <2>4. QED
    BY <2>1, <2>3 DEF AnswerOf, Answering
<1>6. QED
  BY <1>3, <1>4, <1>5

\* A queue without one of its elements has no other elements.
LEMMA RemoveAtKeeps ==
  ASSUME NEW S, NEW q \in Seq(S), NEW i \in DOMAIN q
  PROVE  /\ RemoveAt(q, i) \in Seq(S)
         /\ \A j \in DOMAIN RemoveAt(q, i) : \E k \in DOMAIN q : RemoveAt(q, i)[j] = q[k]
<1> DEFINE before == SubSeq(q, 1, i - 1)
           after == SubSeq(q, i + 1, Len(q))
<1>1. /\ Len(q) \in Nat /\ DOMAIN q = 1 .. Len(q) /\ i \in 1 .. Len(q)
      /\ \A k \in 1 .. Len(q) : q[k] \in S
  BY LenProperties, ElementOfSeq
<1>2. /\ before \in Seq(S) /\ Len(before) = i - 1
      /\ \A k \in 1 .. i - 1 : before[k] = q[k]
  <2>1. \A k \in 1 .. i - 1 : q[k] \in S
    BY <1>1
  <2>2. 1 \in Int /\ i - 1 \in Int
    BY <1>1
  <2> HIDE DEF before
  <2>3. /\ before \in Seq(S) /\ Len(before) = (IF 1 <= i - 1 THEN (i - 1) - 1 + 1 ELSE 0)
        /\ \A k \in 1 .. (i - 1) - 1 + 1 : before[k] = q[1 + k - 1]
    BY <2>1, <2>2, SubSeqProperties DEF before
  <2>4. QED
    BY <1>1, <2>3
<1>3. /\ after \in Seq(S) /\ Len(after) = Len(q) - i
      /\ \A k \in 1 .. Len(q) - i : after[k] = q[i + k]
  <2>1. \A k \in i + 1 .. Len(q) : q[k] \in S
    BY <1>1
  <2>2. i + 1 \in Int /\ Len(q) \in Int
    BY <1>1
  <2> HIDE DEF after
  <2>3. /\ after \in Seq(S) /\ Len(after) = (IF i + 1 <= Len(q) THEN Len(q) - (i + 1) + 1 ELSE 0)
        /\ \A k \in 1 .. Len(q) - (i + 1) + 1 : after[k] = q[(i + 1) + k - 1]
    BY <2>1, <2>2, SubSeqProperties DEF after
  <2>4. Len(after) = Len(q) - i
    BY <1>1, <2>3
  <2>5. ASSUME NEW k \in 1 .. Len(q) - i PROVE after[k] = q[i + k]
    <3>1. k \in 1 .. Len(q) - (i + 1) + 1 /\ (i + 1) + k - 1 = i + k
      BY <1>1
    <3>2. after[k] = q[(i + 1) + k - 1]
      BY <2>3, <3>1
    <3>3. QED
      BY <3>1, <3>2
  <2>6. QED
    BY <2>3, <2>4, <2>5
<1>4. RemoveAt(q, i) = before \o after
  BY DEF RemoveAt
<1> HIDE DEF before, after
<1>5. /\ before \o after \in Seq(S) /\ Len(before \o after) = Len(before) + Len(after)
      /\ \A k \in 1 .. Len(before) + Len(after) : (before \o after)[k] =
           IF k <= Len(before) THEN before[k] ELSE after[k - Len(before)]
  BY <1>2, <1>3, ConcatProperties
<1>6. DOMAIN (before \o after) = 1 .. Len(before) + Len(after)
  BY <1>5, LenProperties
<1>7. ASSUME NEW j \in 1 .. Len(before) + Len(after)
      PROVE  \E k \in DOMAIN q : (before \o after)[j] = q[k]
  <2>1. CASE j <= Len(before)
    <3>1. j \in DOMAIN q /\ (before \o after)[j] = q[j]
      BY <1>1, <1>2, <1>3, <1>5, <2>1
    <3>2. QED
      BY <3>1
  <2>2. CASE j > Len(before)
    <3>1. j + 1 \in DOMAIN q /\ j - Len(before) \in 1 .. Len(q) - i
          /\ i + (j - Len(before)) = j + 1
      BY <1>1, <1>2, <1>3, <2>2
    <3>2. (before \o after)[j] = after[j - Len(before)]
      BY <1>2, <1>3, <1>5, <2>2
    <3>3. (before \o after)[j] = q[j + 1]
      BY <1>3, <3>1, <3>2
    <3>4. QED
      BY <3>1, <3>3
  <2>3. QED
    BY <1>2, <1>3, <2>1, <2>2
<1>8. QED
  BY <1>4, <1>5, <1>6, <1>7

\* What follows a call does not await it any more.
LEMMA AfterMovesOn ==
  ASSUME ClientOf(client), Calling, NEW ok, After(ok)
  PROVE  ClientOf(client') /\ client'.phase # "await" /\ client'.id = client.id
<1> DEFINE again == Task = "qr" /\ ~ ok /\ client.attempt <= QrRetries
           D == [client EXCEPT !.phase = "delay", !.attempt = @ + 1, !.wake = now + RetryDelay]
           N == [client EXCEPT !.at = @ + 1, !.attempt = 1,
                               !.phase = IF client.at = Len(client.plan) THEN "done" ELSE "begin"]
<1>1. client' = D \/ client' = N
  BY DEF After
<1>2. /\ client = [plan |-> client.plan, phase |-> client.phase, at |-> client.at,
                   attempt |-> client.attempt, id |-> client.id,
                   notBefore |-> client.notBefore, wake |-> client.wake]
      /\ client.plan \in Plans /\ client.id \in Nat /\ client.notBefore \in Nat
      /\ client.at \in Nat \ {0} /\ client.at <= Len(client.plan)
  BY DEF ClientOf, Calling
<1>3. Len(client.plan) \in Nat
  BY <1>2, VisionAssumption, LenProperties
<1>4. ASSUME client' = D PROVE ClientOf(client') /\ client'.phase # "await" /\ client'.id = client.id
  <2> DEFINE d == client'
  <2>1. d = [plan |-> client.plan, phase |-> "delay", at |-> client.at,
             attempt |-> client.attempt + 1, id |-> client.id,
             notBefore |-> client.notBefore, wake |-> now + RetryDelay]
    BY <1>2, <1>4
  <2> HIDE DEF d
  <2>2. ClientOf(d) /\ d.phase # "await" /\ d.id = client.id
    BY <1>2, <2>1 DEF ClientOf, ThreadPhases
  <2>3. QED
    BY <2>2 DEF d
<1>5. ASSUME client' = N PROVE ClientOf(client') /\ client'.phase # "await" /\ client'.id = client.id
  <2> DEFINE d == client'
             phase == IF client.at = Len(client.plan) THEN "done" ELSE "begin"
  <2>1. d = [plan |-> client.plan, phase |-> phase, at |-> client.at + 1,
             attempt |-> 1, id |-> client.id,
             notBefore |-> client.notBefore, wake |-> client.wake]
    BY <1>2, <1>5
  <2>2. /\ phase \in {"done", "begin"} /\ client.at + 1 \in Nat \ {0}
        /\ (phase # "done" => client.at + 1 <= Len(client.plan))
    BY <1>2, <1>3
  <2> HIDE DEF d, phase
  <2>3. ClientOf(d) /\ d.phase # "await" /\ d.id = client.id
    BY <1>2, <2>1, <2>2 DEF ClientOf, ThreadPhases
  <2>4. QED
    BY <2>3 DEF d
<1>6. QED
  BY <1>1, <1>4, <1>5

\* The start.
LEMMA VisionStarts == Init => VisionInvariant
<1> SUFFICES ASSUME Init PROVE VisionInvariant
  OBVIOUS
<1>1. PICK plan \in Plans :
        client = [plan |-> plan, phase |-> "begin", at |-> 1, attempt |-> 1, id |-> 0,
                  notBefore |-> 0, wake |-> 0]
  BY DEF Init
<1>2. Len(plan) \in Nat \ {0}
  <2>1. plan \in Seq({"qr", "vlm"}) /\ plan # <<>>
    BY VisionAssumption
  <2>2. QED
    BY <2>1, EmptySeq
<1>3. ClientOf(client)
  BY <1>1, <1>2 DEF ClientOf, ThreadPhases
<1>4. Sample(NoSample)
  BY DEF Sample, NoSample
<1>5. BuffersOf(latest, callbacks) /\ now \in Nat /\ answers = {}
  BY <1>4 DEF Init, BuffersOf
<1>6. requests = <<>> /\ QueueOf(requests, client)
  BY EmptySeq DEF Init, QueueOf
<1>7. ServerOf(server, client)
  BY <1>4 DEF Init, ServerOf, Request
<1>8. QED
  BY <1>3, <1>5, <1>6, <1>7, VisionInvariantIs

\* An answer of the server is one to its request.
LEMMA AnswerKeeps ==
  ASSUME VisionInvariant, NEW ok \in BOOLEAN, NEW status, NEW sample, Sample(sample), NEW text,
         Answer(ok, status, sample, text), UNCHANGED <<now, client, samples, received, requests>>,
         server.phase # "idle",
         ok => /\ sample.received >= server.request.notBefore
               /\ server.request.task = "vlm" => text \in Replies /\ Description(text) # ""
  PROVE  VisionInvariant'
<1>1. /\ now \in Nat /\ ClientOf(client) /\ BuffersOf(latest, callbacks)
      /\ QueueOf(requests, client) /\ ServerOf(server, client)
      /\ \A a \in answers : AnswerOf(a, client)
  BY VisionInvariantIs
<1> DEFINE new == [id |-> server.request.id, ok |-> ok, status |-> status, sample |-> sample,
                   text |-> text, due |-> now + Transport]
           s == [server EXCEPT !.phase = "idle"]
<1>2. answers' = answers \cup {new} /\ server' = s
  BY DEF Answer
<1>3. AnswerOf(new, client)
  <2>1. /\ new.id = server.request.id /\ new.ok = ok /\ new.sample = sample /\ new.text = text
    OBVIOUS
  <2> HIDE DEF new
  <2>2. RequestOf(server.request, client)
    BY <1>1 DEF ServerOf
  <2>3. new.id \in Nat /\ new.id <= client.id
    BY <2>1, <2>2 DEF RequestOf, Request
  <2>4. ASSUME client.phase = "await" PROVE Answering(new, client)
    BY <2>1, <2>2, <2>4 DEF RequestOf, OfCall, Answering
  <2>5. QED
    BY <2>1, <2>3, <2>4 DEF AnswerOf
<1> HIDE DEF new
<1>4. ServerOf(server', client)
  <2>1. /\ server = [phase |-> server.phase, request |-> server.request,
                     deadline |-> server.deadline, sample |-> server.sample]
        /\ server.request \in Request /\ Sample(server.sample)
    BY <1>1 DEF ServerOf
  <2>2. server' = [phase |-> "idle", request |-> server.request,
                   deadline |-> server.deadline, sample |-> server.sample]
    BY <1>2, <2>1
  <2>3. QED
    BY <2>1, <2>2 DEF ServerOf
<1> HIDE DEF s
<1>5. now' = now /\ client' = client /\ latest' = latest /\ callbacks' = callbacks
      /\ requests' = requests
  BY DEF samples
<1>6. \A a \in answers' : AnswerOf(a, client')
  BY <1>1, <1>2, <1>3, <1>5
<1>7. QED
  BY <1>1, <1>2, <1>4, <1>5, <1>6, VisionInvariantNext

\* A call that is sent has a number of its own.
LEMMA SendKeeps ==
  ASSUME VisionInvariant, NEW timeout, NEW notBefore \in Nat, client.phase # "done",
         Send(timeout, notBefore), UNCHANGED <<now, samples, received, server, answers>>
  PROVE  VisionInvariant'
<1>1. /\ now \in Nat /\ ClientOf(client) /\ BuffersOf(latest, callbacks)
      /\ QueueOf(requests, client) /\ ServerOf(server, client)
      /\ \A a \in answers : AnswerOf(a, client)
  BY VisionInvariantIs
<1> DEFINE d == [client EXCEPT !.phase = "await", !.id = @ + 1, !.notBefore = notBefore,
                               !.wake = now + timeout]
           r == [id |-> client.id + 1, task |-> Task, notBefore |-> notBefore,
                 due |-> now + Transport]
<1>2. client' = d /\ requests' = Append(requests, r)
  BY DEF Send
<1>3. /\ client = [plan |-> client.plan, phase |-> client.phase, at |-> client.at,
                   attempt |-> client.attempt, id |-> client.id,
                   notBefore |-> client.notBefore, wake |-> client.wake]
      /\ client.plan \in Plans /\ client.id \in Nat
      /\ client.at \in Nat \ {0} /\ client.at <= Len(client.plan)
  BY <1>1 DEF ClientOf
<1>4. client' = [plan |-> client.plan, phase |-> "await", at |-> client.at,
                 attempt |-> client.attempt, id |-> client.id + 1,
                 notBefore |-> notBefore, wake |-> now + timeout]
  BY <1>2, <1>3
<1>5. r.task = TaskOf(client) /\ r.task \in {"qr", "vlm"}
  BY <1>1, TaskIsNamed DEF TaskOf, Task
<1>6. r \in Request /\ r.id = client.id + 1 /\ r.notBefore = notBefore
  BY <1>1, <1>3, <1>5, VisionConstants DEF Request
<1> HIDE DEF d, r
<1>7. ClientOf(d) /\ d.id = client.id + 1 /\ d.notBefore = notBefore /\ TaskOf(d) = TaskOf(client)
  BY <1>2, <1>3, <1>4 DEF ClientOf, ThreadPhases, TaskOf
<1>8. QueueOf(requests, d) /\ ServerOf(server, d) /\ \A a \in answers : AnswerOf(a, d)
  BY <1>1, <1>7, MovedOn
<1>9. RequestOf(r, d)
  BY <1>3, <1>5, <1>6, <1>7 DEF RequestOf, OfCall
<1>10. QueueOf(Append(requests, r), d)
  <2>1. requests \in Seq(Request)
    BY <1>1 DEF QueueOf
  <2>2. /\ Append(requests, r) \in Seq(Request) /\ Len(Append(requests, r)) = Len(requests) + 1
        /\ \A i \in 1 .. Len(requests) : Append(requests, r)[i] = requests[i]
        /\ Append(requests, r)[Len(requests) + 1] = r
    BY <1>6, <2>1, AppendProperties
  <2>3. /\ Len(requests) \in Nat /\ DOMAIN requests = 1 .. Len(requests)
        /\ DOMAIN Append(requests, r) = 1 .. Len(requests) + 1
    BY <2>1, <2>2, LenProperties
  <2>4. ASSUME NEW i \in DOMAIN Append(requests, r) PROVE RequestOf(Append(requests, r)[i], d)
    <3>1. CASE i = Len(requests) + 1
      BY <1>9, <2>2, <3>1
    <3>2. CASE i # Len(requests) + 1
      <4>1. i \in DOMAIN requests
        BY <2>3, <3>2
      <4>2. RequestOf(requests[i], d)
        BY <1>8, <4>1 DEF QueueOf
      <4>3. QED
        BY <2>2, <2>3, <4>1, <4>2
    <3>3. QED
      BY <3>1, <3>2
  <2>5. QED
    BY <2>2, <2>4 DEF QueueOf
<1>11. now' = now /\ latest' = latest /\ callbacks' = callbacks /\ server' = server
       /\ answers' = answers
  BY DEF samples
<1>12. QED
  BY <1>1, <1>2, <1>7, <1>8, <1>10, <1>11, VisionInvariantNext

\* A thread that goes on without a call.
LEMMA GoesOn ==
  ASSUME VisionInvariant, ClientOf(client'), client'.phase # "await", client'.id = client.id,
         UNCHANGED <<now, samples, requests, server>>, answers' \subseteq answers
  PROVE  VisionInvariant'
<1>1. /\ now \in Nat /\ ClientOf(client) /\ BuffersOf(latest, callbacks)
      /\ QueueOf(requests, client) /\ ServerOf(server, client)
      /\ \A a \in answers : AnswerOf(a, client)
  BY VisionInvariantIs
<1>2. QueueOf(requests, client') /\ ServerOf(server, client')
      /\ \A a \in answers : AnswerOf(a, client')
  BY <1>1, MovedOn
<1>3. now' = now /\ latest' = latest /\ callbacks' = callbacks /\ requests' = requests
      /\ server' = server
  BY DEF samples
<1>4. QED
  BY <1>1, <1>2, <1>3, VisionInvariantNext

\* Every step keeps the invariant of the calls.
LEMMA VisionKeeps == VisionInvariant /\ [Next]_vars => VisionInvariant'
<1> SUFFICES ASSUME VisionInvariant, [Next]_vars PROVE VisionInvariant'
  OBVIOUS
<1>1. /\ now \in Nat /\ ClientOf(client) /\ BuffersOf(latest, callbacks)
      /\ QueueOf(requests, client) /\ ServerOf(server, client)
      /\ \A a \in answers : AnswerOf(a, client)
  BY VisionInvariantIs
<1>2. /\ server = [phase |-> server.phase, request |-> server.request,
                   deadline |-> server.deadline, sample |-> server.sample]
      /\ server.request \in Request /\ Sample(server.sample)
      /\ server.phase \in {"idle", "sample", "backend"}
  BY <1>1 DEF ServerOf
<1>3. \A topic \in Topics : Sample(latest[topic])
  BY <1>1 DEF BuffersOf
<1>4. ASSUME NEW topic \in Topics, NEW value, Arrives(topic, value) PROVE VisionInvariant'
  <2> DEFINE c == [topic |-> topic, received |-> now, value |-> value, n |-> arrived[topic]]
  <2>1. callbacks' = callbacks \cup {c} /\ UNCHANGED <<now, client, latest, received, wires>>
    BY <1>4 DEF Arrives
  <2>2. Sample(c) /\ c.topic \in Topics
    BY <1>1 DEF Sample
  <2> HIDE DEF c
  <2>3. BuffersOf(latest', callbacks')
    BY <1>1, <2>1, <2>2 DEF BuffersOf
  <2>4. QED
    BY <1>1, <2>1, <2>3, VisionInvariantNext DEF wires
<1>5. ASSUME NEW c \in callbacks, Put(c) PROVE VisionInvariant'
  <2> DEFINE sample == [received |-> c.received, value |-> c.value]
             new == Newest(latest[c.topic], sample)
  <2>1. /\ callbacks' = callbacks \ {c} /\ latest' = [latest EXCEPT ![c.topic] = new]
        /\ UNCHANGED <<now, client, arrived, wires>>
    BY <1>5 DEF Put
  <2>2. Sample(c) /\ c.topic \in Topics
    BY <1>1 DEF BuffersOf
  <2>3. Sample(sample)
    BY <2>2 DEF Sample
  <2> HIDE DEF sample
  <2>4. Sample(new)
    BY <1>3, <2>2, <2>3 DEF Newest
  <2> HIDE DEF new
  <2>5. BuffersOf(latest', callbacks')
    BY <1>1, <2>1, <2>4 DEF BuffersOf
  <2>6. QED
    BY <1>1, <2>1, <2>5, VisionInvariantNext DEF wires
<1>6. ASSUME NEW i \in DOMAIN requests, Serve(i) PROVE VisionInvariant'
  <2> DEFINE r == requests[i]
             budget == IF r.task = "qr" THEN QrTimeout ELSE Least(VlmTimeout, MaxVlmTimeout)
             s == [phase |-> "sample", request |-> r, deadline |-> now + budget, sample |-> NoSample]
  <2>1. /\ requests' = RemoveAt(requests, i) /\ server' = s
        /\ UNCHANGED <<now, client, samples, received, answers>>
    BY <1>6 DEF Serve
  <2>2. RequestOf(r, client) /\ r \in Request
    BY <1>1 DEF QueueOf, RequestOf
  <2>3. Sample(NoSample)
    BY DEF Sample, NoSample
  <2>4. ServerOf(s, client)
    <3> HIDE DEF r, budget
    <3>1. QED
      BY <2>2, <2>3 DEF ServerOf
  <2>5. QueueOf(RemoveAt(requests, i), client)
    <3>1. /\ RemoveAt(requests, i) \in Seq(Request)
          /\ \A j \in DOMAIN RemoveAt(requests, i) :
               \E k \in DOMAIN requests : RemoveAt(requests, i)[j] = requests[k]
      <4>1. requests \in Seq(Request)
        BY <1>1 DEF QueueOf
      <4>2. QED
        BY <4>1, RemoveAtKeeps
    <3>2. \A k \in DOMAIN requests : RequestOf(requests[k], client)
      BY <1>1 DEF QueueOf
    <3>3. QED
      BY <3>1, <3>2 DEF QueueOf
  <2> HIDE DEF s
  <2>6. QED
    BY <1>1, <2>1, <2>4, <2>5, VisionInvariantNext DEF samples
<1>7. CASE SampleTimesOut
  <2>1. Sample(NoSample)
    BY DEF Sample, NoSample
  <2>2. /\ server.phase = "sample" /\ Answer(FALSE, "sample_timeout", NoSample, "")
        /\ UNCHANGED <<now, client, samples, received, requests>>
    BY <1>7 DEF SampleTimesOut
  <2>3. QED
    BY <2>1, <2>2, AnswerKeeps
<1>8. CASE ReadQr
  <2> DEFINE sample == latest["barcode"]
             ok == sample.value # ""
             status == IF sample.value = "" THEN "qr_empty" ELSE "ok"
  <2>1. /\ Answer(ok, status, sample, sample.value)
        /\ UNCHANGED <<now, client, samples, received, requests>>
    BY <1>8 DEF ReadQr
  <2>2. /\ server.phase = "sample" /\ server.request.task = "qr"
        /\ sample.received >= server.request.notBefore
    BY <1>8 DEF ReadQr, HasSample, TopicOf
  <2>3. Sample(sample)
    BY <1>3 DEF Topics
  <2>4. ok \in BOOLEAN
    OBVIOUS
  <2> HIDE DEF sample, status, ok
  <2>5. QED
    BY <2>1, <2>2, <2>3, <2>4, AnswerKeeps
<1>9. CASE DescribeScene
  <2> DEFINE s == [server EXCEPT !.phase = "backend", !.sample = latest["image"]]
  <2>1. server' = s /\ UNCHANGED <<now, client, samples, received, requests, answers>>
    BY <1>9 DEF DescribeScene
  <2>2. /\ server.phase = "sample" /\ server.request.task = "vlm"
        /\ latest["image"].received >= server.request.notBefore
    BY <1>9 DEF DescribeScene, HasSample, TopicOf
  <2>3. Sample(latest["image"])
    BY <1>3 DEF Topics
  <2>4. server' = [phase |-> "backend", request |-> server.request,
                   deadline |-> server.deadline, sample |-> latest["image"]]
    BY <1>2, <2>1
  <2>5. RequestOf(server.request, client)
    BY <1>1, <2>2 DEF ServerOf
  <2> HIDE DEF s
  <2>6. ServerOf(server', client)
    BY <1>2, <2>2, <2>3, <2>4, <2>5 DEF ServerOf
  <2>7. QED
    BY <1>1, <2>1, <2>6, VisionInvariantNext DEF samples
<1>10. CASE DescribeFails
  <2>1. PICK status \in {"jpeg_error", "vlm_timeout"} : Answer(FALSE, status, latest["image"], "")
    BY <1>10 DEF DescribeFails
  <2>2. /\ server.phase = "sample" /\ UNCHANGED <<now, client, samples, received, requests>>
    BY <1>10 DEF DescribeFails, HasSample
  <2>3. Sample(latest["image"])
    BY <1>3 DEF Topics
  <2>4. QED
    BY <2>1, <2>2, <2>3, AnswerKeeps
<1>11. ASSUME NEW reply \in Replies, BackendReturns(reply) PROVE VisionInvariant'
  <2> DEFINE ok == now < server.deadline /\ Description(reply) # ""
             status == IF ok THEN "ok" ELSE "backend"
  <2>1. /\ Answer(ok, status, server.sample, reply) /\ server.phase = "backend"
        /\ UNCHANGED <<now, client, samples, received, requests>>
    BY <1>11 DEF BackendReturns
  <2>2. /\ server.sample.received >= server.request.notBefore
    BY <1>1, <2>1 DEF ServerOf
  <2>3. ok \in BOOLEAN /\ (ok => Description(reply) # "")
    OBVIOUS
  <2> HIDE DEF status, ok
  <2>4. QED
    BY <1>2, <2>1, <2>2, <2>3, AnswerKeeps
<1>12. ASSUME NEW phase \in ThreadPhases \ {"await", "done"}, NEW notBefore \in Nat, NEW wake,
              client' = [plan |-> client.plan, phase |-> phase, at |-> client.at,
                         attempt |-> client.attempt, id |-> client.id,
                         notBefore |-> notBefore, wake |-> wake],
              client.phase # "done", UNCHANGED <<now, samples, received, wires>>
       PROVE  VisionInvariant'
  <2> DEFINE d == client'
  <2>1. /\ d.plan = client.plan /\ d.phase = phase /\ d.at = client.at
        /\ d.attempt = client.attempt /\ d.id = client.id
        /\ d.notBefore = notBefore /\ d.wake = wake
        /\ d = [plan |-> client.plan, phase |-> phase, at |-> client.at,
                attempt |-> client.attempt, id |-> client.id,
                notBefore |-> notBefore, wake |-> wake]
    BY <1>12
  <2> HIDE DEF d
  <2>2. ClientOf(d) /\ d.phase # "await" /\ d.id = client.id
    BY <1>1, <1>12, <2>1 DEF ClientOf, ThreadPhases
  <2>3. QED
    BY <1>12, <2>2, GoesOn DEF d, wires
<1>13. /\ client = [plan |-> client.plan, phase |-> client.phase, at |-> client.at,
                    attempt |-> client.attempt, id |-> client.id,
                    notBefore |-> client.notBefore, wake |-> client.wake]
       /\ client.notBefore \in Nat
  BY <1>1 DEF ClientOf
<1>14. CASE BeginQr
  <2>1. /\ client.phase = "begin" /\ UNCHANGED <<now, samples, received, wires>>
        /\ client' = [client EXCEPT !.phase = "starting", !.notBefore = now,
                                    !.wake = now + ReaderStartup]
    BY <1>14 DEF BeginQr
  <2>2. client' = [plan |-> client.plan, phase |-> "starting", at |-> client.at,
                   attempt |-> client.attempt, id |-> client.id,
                   notBefore |-> now, wake |-> now + ReaderStartup]
    BY <1>13, <2>1
  <2>3. QED
    BY <1>1, <1>12, <2>1, <2>2 DEF ThreadPhases
<1>15. CASE Retry
  <2>1. /\ client.phase = "delay" /\ UNCHANGED <<now, samples, received, wires>>
        /\ client' = [client EXCEPT !.phase = "begin"]
    BY <1>15 DEF Retry
  <2>2. client' = [plan |-> client.plan, phase |-> "begin", at |-> client.at,
                   attempt |-> client.attempt, id |-> client.id,
                   notBefore |-> client.notBefore, wake |-> client.wake]
    BY <1>13, <2>1
  <2>3. QED
    BY <1>12, <1>13, <2>1, <2>2 DEF ThreadPhases
<1>16. CASE SendQr
  <2>1. /\ client.phase # "done" /\ Send(QrTimeout, client.notBefore)
        /\ UNCHANGED <<now, samples, received, server, answers>>
    BY <1>16 DEF SendQr
  <2>2. QED
    BY <1>13, <2>1, SendKeeps
<1>17. CASE SendVlm
  <2>1. /\ client.phase # "done" /\ Send(VlmTimeout + Grace, now)
        /\ UNCHANGED <<now, samples, received, server, answers>>
    BY <1>17 DEF SendVlm
  <2>2. QED
    BY <1>1, <2>1, SendKeeps
<1>18. ASSUME NEW a \in answers, TakeAnswer(a) PROVE VisionInvariant'
  <2>1. /\ Calling /\ After(a.ok) /\ answers' = answers \ {a}
        /\ UNCHANGED <<now, samples, requests, server>>
    BY <1>18 DEF TakeAnswer
  <2>2. ClientOf(client') /\ client'.phase # "await" /\ client'.id = client.id
    BY <1>1, <2>1, AfterMovesOn
  <2>3. answers' \subseteq answers
    BY <2>1
  <2>4. QED
    BY <2>1, <2>2, <2>3, GoesOn
<1>19. ASSUME NEW a \in answers, DropAnswer(a) PROVE VisionInvariant'
  <2>1. /\ answers' = answers \ {a} /\ UNCHANGED <<now, client, samples, received, requests, server>>
    BY <1>19 DEF DropAnswer
  <2>2. QED
    BY <1>1, <2>1, VisionInvariantNext DEF samples
<1>20. CASE CallTimesOut
  <2>1. Calling /\ After(FALSE) /\ UNCHANGED <<now, samples, wires>>
    BY <1>20 DEF CallTimesOut
  <2>2. ClientOf(client') /\ client'.phase # "await" /\ client'.id = client.id
    BY <1>1, <2>1, AfterMovesOn
  <2>3. UNCHANGED <<now, samples, requests, server>> /\ answers' \subseteq answers
    BY <2>1 DEF wires
  <2>4. QED
    BY <2>2, <2>3, GoesOn
<1>21. CASE Tick
  <2>1. now' = now + 1 /\ UNCHANGED <<client, samples, received, wires>>
    BY <1>21 DEF Tick
  <2>2. now' \in Nat
    BY <1>1, <2>1
  <2>3. QED
    BY <1>1, <2>1, <2>2, VisionInvariantNext DEF samples, wires
<1>22. CASE UNCHANGED vars
  BY <1>1, <1>22, VisionInvariantNext DEF vars
<1>23. "barcode" \in Topics /\ "image" \in Topics
  BY DEF Topics
<1>24. QED
  BY <1>4, <1>5, <1>6, <1>7, <1>8, <1>9, <1>10, <1>11, <1>14, <1>15, <1>16, <1>17, <1>18,
     <1>19, <1>20, <1>21, <1>22, <1>23 DEF Next

\* The calls of the vision services: types, and whose what is under way is.
THEOREM VisionInvariantHolds == Spec => []VisionInvariant
  BY VisionStarts, VisionKeeps, PTL DEF Spec

\* A success that the mission acts on rests on a sample received no earlier than the
\* threshold of this very attempt, however many attempts were given up before.
THEOREM SuccessAlwaysFresh == Spec => SuccessIsFresh
<1>1. VisionInvariant /\ [Next]_vars
      => [\A a \in answers : TakeAnswer(a) /\ a.ok => a.sample.received >= client.notBefore]_vars
  BY VisionInvariantIs DEF TakeAnswer, Mine, Calling, AnswerOf, Answering
<1>2. QED
  BY <1>1, VisionInvariantHolds, PTL DEF Spec, SuccessIsFresh

\* A description is acted on only if the scene service answered with a whole and
\* completed response.
THEOREM DescriptionAlwaysComplete == Spec => DescriptionIsComplete
<1>1. ASSUME NEW reply, Description(reply) # ""
      PROVE  /\ reply.code = 200 /\ reply.whole /\ reply.body.status \in {"", "completed"}
             /\ reply.body.output_text # "" \/ reply.body.output # ""
  BY <1>1 DEF Description, Extracted
<1>2. VisionInvariant /\ [Next]_vars
      => [\A a \in answers : TakeAnswer(a) /\ a.ok /\ Task = "vlm" =>
            /\ a.text.code = 200 /\ a.text.whole /\ a.text.body.status \in {"", "completed"}
            /\ a.text.body.output_text # "" \/ a.text.body.output # ""]_vars
  <2> SUFFICES ASSUME VisionInvariant, NEW a \in answers, TakeAnswer(a), a.ok, Task = "vlm"
               PROVE  Description(a.text) # ""
    BY <1>1
  <2>1. client.phase = "await" /\ a.id = client.id
    BY DEF TakeAnswer, Mine, Calling
  <2>2. AnswerOf(a, client)
    BY VisionInvariantIs
  <2>3. QED
    BY <2>1, <2>2 DEF AnswerOf, Answering, TaskOf, Task
<1>3. QED
  BY <1>2, VisionInvariantHolds, PTL DEF Spec, DescriptionIsComplete

-----------------------------------------------------------------------------
(* The relay of the depth camera. *)

\* The constants are numbers.
LEMMA DepthConstants ==
  /\ StaleTimeout \in Nat /\ CheckPeriod \in Nat /\ Slack \in Nat /\ RelayHorizon \in Nat
  /\ MaxPoints \in Nat \ {0} /\ SampleLimit \in Nat \ {0, 1}
  /\ \A c \in Clouds : c.size \in Nat
  BY DepthRelayAssumption

\* The quotient of two naturals is one.
LEMMA QuotientIsNatural ==
  ASSUME NEW a \in Nat, NEW b \in Nat \ {0}
  PROVE  a \div b \in Nat
  OBVIOUS

\* The product too.
LEMMA ProductIsNatural ==
  ASSUME NEW a \in Nat, NEW b \in Nat
  PROVE  a * b \in Nat
  OBVIOUS

\* A cloud is thinned out to at most so many points.
LEMMA SpreadIsSmall ==
  ASSUME NEW size \in Nat, NEW most \in Nat \ {0}
  PROVE  /\ Spread(size, most) \subseteq Nat
         /\ IsFiniteSet(Spread(size, most)) /\ Cardinality(Spread(size, most)) <= most
<1>1. CASE size <= most
  <2>1. Spread(size, most) = 0 .. size - 1
    BY <1>1 DEF Spread
  <2>2. IsFiniteSet(0 .. size - 1) /\ Cardinality(0 .. size - 1) <= most
    <3>1. IsFiniteSet(0 .. size - 1)
          /\ Cardinality(0 .. size - 1) = IF 0 > size - 1 THEN 0 ELSE (size - 1) - 0 + 1
      BY FS_Interval
    <3>2. QED
      BY <1>1, <3>1
  <2>3. 0 .. size - 1 \subseteq Nat
    OBVIOUS
  <2>4. QED
    BY <2>1, <2>2, <2>3
<1>2. CASE size > most /\ most = 1
  <2>1. Spread(size, most) = {0}
    BY <1>2 DEF Spread
  <2>2. IsFiniteSet({0}) /\ Cardinality({0}) = 1
    BY FS_Singleton
  <2>3. QED
    BY <1>2, <2>1, <2>2
<1>3. CASE size > most /\ most # 1
  <2> DEFINE At(i) == (i * (size - 1)) \div (most - 1)
             Points == {At(i) : i \in 0 .. most - 1}
             f == [i \in 0 .. most - 1 |-> At(i)]
  <2>1. Spread(size, most) = Points
    BY <1>3 DEF Spread
  <2>2. \A i \in 0 .. most - 1 : At(i) \in Nat
    <3> TAKE i \in 0 .. most - 1
    <3>1. i \in Nat /\ size - 1 \in Nat /\ most - 1 \in Nat \ {0}
      BY <1>3
    <3>2. i * (size - 1) \in Nat
      BY <3>1, ProductIsNatural
    <3>3. QED
      BY <3>1, <3>2, QuotientIsNatural
  <2> HIDE DEF At
  <2>3. f \in Surjection(0 .. most - 1, Points)
    BY DEF Surjection
  <2>4. IsFiniteSet(0 .. most - 1) /\ Cardinality(0 .. most - 1) = most
    BY FS_Interval
  <2>5. IsFiniteSet(Points) /\ Cardinality(Points) <= most
    BY <2>3, <2>4, FS_Surjection
  <2>6. QED
    BY <2>1, <2>2, <2>5
<1>4. QED
  BY <1>1, <1>2, <1>3

\* The start and every step keep the invariant of the relay.
LEMMA DepthStarts == DepthInit => DepthInvariant
  BY DepthConstants, FS_EmptySet
  DEF DepthInit, DepthInvariant, DepthTyped, FlowFollows, Instants, Never

LEMMA DepthKeeps == DepthInvariant /\ [DepthNext]_depthVars => DepthInvariant'
<1> SUFFICES ASSUME DepthInvariant, [DepthNext]_depthVars PROVE DepthInvariant'
  OBVIOUS
<1> USE DEF Never, Instants
<1>1. /\ relayTime \in Nat
      /\ depthRelay \in [received: Instants, published: Instants,
                        status: {"waiting", "active", "stale", "invalid"},
                        sent: SUBSET Nat, checked: Nat]
  BY DEF DepthInvariant, DepthTyped
<1>2. FlowFollows
  BY DEF DepthInvariant
<1>3. CASE RelayTicks
  <2>1. relayTime' = relayTime + 1 /\ UNCHANGED depthRelay
        /\ relayTime + 1 <= depthRelay.checked + CheckPeriod + Slack
    BY <1>3 DEF RelayTicks
  <2>2. QED
    BY <1>1, <1>2, <2>1, DepthConstants DEF DepthInvariant, DepthTyped, FlowFollows
<1>4. CASE CheckFreshness
  <2> DEFINE word == IF depthRelay.received # Never /\ IsStale THEN "stale" ELSE depthRelay.status
  <2>1. depthRelay' = [depthRelay EXCEPT !.checked = relayTime, !.status = word]
        /\ UNCHANGED relayTime
    BY <1>1, <1>4 DEF CheckFreshness
  <2>2. word \in {"waiting", "active", "stale", "invalid"}
        /\ (word = "active" => depthRelay.status = "active"
                               /\ relayTime - depthRelay.received <= StaleTimeout)
        /\ (depthRelay.received = relayTime => word = depthRelay.status)
    BY <1>1, <1>2, DepthConstants DEF IsStale, FlowFollows
  <2> HIDE DEF word
  <2>3. /\ depthRelay'.received = depthRelay.received /\ depthRelay'.published = depthRelay.published
        /\ depthRelay'.sent = depthRelay.sent /\ depthRelay'.checked = relayTime
        /\ depthRelay'.status = word
    BY <1>1, <2>1
  <2>4. DepthTyped'
    BY <1>1, <2>1, <2>2 DEF DepthTyped
  <2>5. FlowFollows'
    BY <1>1, <1>2, <2>1, <2>2, <2>3, DepthConstants DEF FlowFollows
  <2>6. QED
    BY <2>4, <2>5 DEF DepthInvariant
<1>5. ASSUME NEW delay \in 0 - MaxFutureSkew - 1 .. MaxCaptureAge + 1, NEW cloud \in Clouds,
             OnPointCloud(relayTime - delay, cloud)
      PROVE  DepthInvariant'
  <2>1. CASE IsSound(cloud) /\ CaptureFits(relayTime - delay)
    <3> DEFINE points == Spread(cloud.size, MaxPoints)
    <3>1. depthRelay' = [depthRelay EXCEPT !.received = relayTime, !.published = relayTime,
                           !.status = "active", !.sent = points] /\ UNCHANGED relayTime
      BY <1>5, <2>1 DEF OnPointCloud
    <3>2. points \in SUBSET Nat /\ Cardinality(points) <= MaxPoints
      BY DepthConstants, SpreadIsSmall
    <3> HIDE DEF points
    <3>3. /\ depthRelay'.received = relayTime /\ depthRelay'.published = relayTime
          /\ depthRelay'.sent = points /\ depthRelay'.checked = depthRelay.checked
          /\ depthRelay'.status = "active"
      BY <1>1, <3>1
    <3>4. DepthTyped'
      BY <1>1, <3>1, <3>2 DEF DepthTyped
    <3>5. FlowFollows'
      <4>1. depthRelay.checked - relayTime <= StaleTimeout
        BY <1>1, <1>2, DepthConstants DEF FlowFollows
      <4>2. QED
        BY <1>1, <1>2, <3>1, <3>2, <3>3, <4>1 DEF FlowFollows
    <3>6. QED
      BY <3>4, <3>5 DEF DepthInvariant
  <2>2. CASE ~ (IsSound(cloud) /\ CaptureFits(relayTime - delay))
    <3>1. depthRelay' = [depthRelay EXCEPT !.received = Never, !.status = "invalid"]
          /\ UNCHANGED relayTime
      BY <1>5, <2>2 DEF OnPointCloud, Refuses
    <3>2. /\ depthRelay'.received = Never /\ depthRelay'.published = depthRelay.published
          /\ depthRelay'.sent = depthRelay.sent /\ depthRelay'.checked = depthRelay.checked
          /\ depthRelay'.status = "invalid"
      BY <1>1, <3>1
    <3>3. DepthTyped'
      BY <1>1, <3>1 DEF DepthTyped
    <3>4. FlowFollows'
      BY <1>1, <1>2, <3>1, <3>2 DEF FlowFollows
    <3>5. QED
      BY <3>3, <3>4 DEF DepthInvariant
  <2>3. QED
    BY <2>1, <2>2
<1>6. CASE UNCHANGED depthVars
  BY <1>1, <1>2, <1>6 DEF depthVars, DepthInvariant, DepthTyped, FlowFollows
<1>7. QED
  BY <1>3, <1>4, <1>5, <1>6 DEF DepthNext

\* The relay: types, and what its status was said of.
THEOREM DepthInvariantHolds == DepthSpec => []DepthInvariant
  BY DepthStarts, DepthKeeps, PTL DEF DepthSpec

\* "active" is said only of a stream that flows, and no cloud goes on with more points
\* than the board can bear, however large it was.
THEOREM ActiveAlwaysMeansFlowing == DepthSpec => []ActiveMeansFlowing
<1>1. DepthInvariant => ActiveMeansFlowing
  BY DepthConstants
  DEF DepthInvariant, DepthTyped, FlowFollows, ActiveMeansFlowing, Instants, Never
<1>2. QED
  BY <1>1, DepthInvariantHolds, PTL

-----------------------------------------------------------------------------
(* The perception monitor of the simulation. *)

\* The cones and the displacements of the frames are numbers, the cones finitely many.
LEMMA PerceptionConstants ==
  /\ Cones \subseteq Int /\ IsFiniteSet(Cones) /\ MinLandmarkIds \in Nat \ {0}
  /\ \A f \in Frames : f.tf \in Int /\ f.odom \in Int
  BY SimPerceptionAssumption

\* A scan, placed where the car was, lies on the cones as the transform displaces them.
LEMMA ScanLiesOnCones ==
  ASSUME PerceptionTyped, NEW s \in 1 .. Now
  PROVE  Placed(ScanPoints(s), s) \subseteq {c + world.frame.tf : c \in Cones}
<1>1. world.pose[s] \in Int /\ world.frame.tf \in Int
  BY PerceptionConstants DEF PerceptionTyped
<1>2. ASSUME NEW d \in ScanPoints(s)
      PROVE  \E c \in Cones : d + world.pose[s] + world.frame.tf = c + world.frame.tf
  <2>1. PICK c \in Cones : d = c - world.pose[s]
    BY DEF ScanPoints
  <2>2. QED
    BY <1>1, <2>1, PerceptionConstants
<1>3. QED
  BY <1>2 DEF Placed

\* In a frame that is right the layers can only mark cones.
LEMMA MarkableAreCones ==
  ASSUME PerceptionTyped, FrameIsRight
  PROVE  Markable \subseteq Cones
<1>1. world.frame.tf = 0 /\ world.frame.odom = 0
  BY DEF FrameIsRight
<1>2. ASSUME NEW s \in 1 .. Now PROVE Placed(ScanPoints(s), s) \subseteq Cones
  BY <1>1, ScanLiesOnCones, PerceptionConstants
<1>3. ASSUME NEW s \in 1 .. Now PROVE Placed(DepthPoints(s) \ {ClearRange}, s) \subseteq Cones
  <2>1. world.pose[s] \in Int
    BY DEF PerceptionTyped
  <2>2. ASSUME NEW d \in DepthPoints(s) \ {ClearRange}
        PROVE  d + world.pose[s] + world.frame.tf \in Cones
    <3>1. PICK c \in Cones : d = c - world.pose[s] - world.frame.odom
      BY DEF DepthPoints
    <3>2. d + world.pose[s] + world.frame.tf = c
      BY <1>1, <2>1, <3>1, PerceptionConstants
    <3>3. QED
      BY <3>2
  <2>3. QED
    BY <2>2 DEF Placed
<1>4. QED
  BY <1>2, <1>3 DEF Markable

\* As many cones on cones as a registration needs are only seen in a frame that is not
\* displaced.
LEMMA MatchedTellsFrame ==
  ASSUME PerceptionTyped, ears.scan # 0, Cardinality(MatchedIds) >= MinLandmarkIds
  PROVE  world.frame.tf = 0
<1> SUFFICES ASSUME world.frame.tf # 0 PROVE FALSE
  OBVIOUS
<1> DEFINE tf == world.frame.tf
           Kept == {c \in Cones : c + tf \in Cones}
           Images == {c + tf : c \in Kept}
           shift == [c \in Kept |-> c + tf]
<1>1. world.frame \in Frames /\ tf \in Int /\ ears.scan \in 1 .. Now
  BY PerceptionConstants DEF PerceptionTyped
<1>2. Cardinality(Kept) < MinLandmarkIds
  BY <1>1, FramesAreTold
<1>3. IsFiniteSet(Kept)
  <2>1. Kept \in SUBSET Cones
    OBVIOUS
  <2> HIDE DEF Kept
  <2>2. QED
    BY <2>1, PerceptionConstants, FS_Subset
<1>4. MatchedIds \in SUBSET Images
  <2>1. Placed(ScanPoints(ears.scan), ears.scan) \subseteq {c + tf : c \in Cones}
    BY <1>1, ScanLiesOnCones
  <2>2. QED
    BY <2>1 DEF MatchedIds
<1>5. shift \in Surjection(Kept, Images)
  BY DEF Surjection
<1> HIDE DEF Kept, Images, shift
<1>6. IsFiniteSet(Images) /\ Cardinality(Images) <= Cardinality(Kept)
  BY <1>3, <1>5, FS_Surjection
<1>7. IsFiniteSet(MatchedIds) /\ Cardinality(MatchedIds) <= Cardinality(Images)
  BY <1>4, <1>6, FS_Subset
<1>8. /\ Cardinality(MatchedIds) \in Nat /\ Cardinality(Images) \in Nat
      /\ Cardinality(Kept) \in Nat
  BY <1>3, <1>6, <1>7, FS_CardinalityType
<1>9. QED
  BY <1>2, <1>6, <1>7, <1>8, PerceptionConstants

\* What the monitor may conclude of an evaluation.
LEMMA EvaluationFollows ==
  ASSUME PerceptionInvariant, NEW t
  PROVE  /\ Registers(t) => world.frame.tf = 0
         /\ FrameIsRight /\ ZonePasses(t) => marked = Names
         /\ AllChecks(t) => FrameIsRight /\ marked = Names
<1>1. Registers(t) => world.frame.tf = 0
  <2>1. CASE monitor.registered
    BY <2>1 DEF PerceptionInvariant, LatchesFollow
  <2>2. CASE ~ monitor.registered
    <3> SUFFICES ASSUME Registers(t) PROVE world.frame.tf = 0
      OBVIOUS
    <3>1. TfOk(t) /\ Cardinality(MatchedIds) >= MinLandmarkIds
      BY <2>2 DEF Registers
    <3>2. ears.scan # 0
      BY <3>1 DEF TfOk, ScanOk
    <3>3. QED
      BY <3>1, <3>2, MatchedTellsFrame DEF PerceptionInvariant
  <2>3. QED
    BY <2>1, <2>2
<1>2. ASSUME FrameIsRight, ZonePasses(t) PROVE marked = Names
  <2>1. CASE monitor.zone
    BY <1>2, <2>1 DEF PerceptionInvariant, LatchesFollow
  <2>2. CASE ~ monitor.zone
    <3>1. ASSUME NEW n \in Names PROVE n \in marked
      <4>1. Matched(n, ObservedPoints(t) \cap AZone) # {}
        BY <1>2, <2>2 DEF ZonePasses
      <4>2. maps[n].marks \cap AZone # {}
        BY <4>1 DEF Matched, InWindow
      <4>3. QED
        BY <1>2, <4>2 DEF PerceptionInvariant, MarksFollow
    <3>2. marked \subseteq Names
      BY DEF PerceptionInvariant, PerceptionTyped
    <3>3. QED
      BY <3>1, <3>2
  <2>3. QED
    BY <2>1, <2>2
<1>3. ASSUME AllChecks(t) PROVE FrameIsRight /\ marked = Names
  <2>1. Aligned /\ Registers(t) /\ ZonePasses(t)
    BY <1>3 DEF AllChecks, LandmarksOk
  <2>2. world.frame.tf = world.frame.odom
    BY <2>1 DEF Aligned
  <2>3. FrameIsRight
    BY <1>1, <2>1, <2>2 DEF FrameIsRight
  <2>4. QED
    BY <1>2, <2>1, <2>3
<1>4. QED
  BY <1>1, <1>2, <1>3

\* The start.
LEMMA PerceptionStarts == PerceptionInit => PerceptionInvariant
<1> SUFFICES ASSUME PerceptionInit PROVE PerceptionInvariant
  OBVIOUS
<1>1. PICK f \in Frames : world = [frame |-> f, pose |-> [t \in {1} |-> 0], odometry |-> {}]
  BY DEF PerceptionInit
<1>2. Now = 1
  BY <1>1, FS_Singleton DEF Now
<1>3. 1 .. 1 = {1}
  OBVIOUS
<1>4. /\ world.frame \in Frames /\ world.odometry \subseteq 1 .. Now
      /\ DOMAIN world.pose = 1 .. Now /\ \A t \in 1 .. Now : world.pose[t] \in Int
      /\ world = [frame |-> world.frame, pose |-> world.pose, odometry |-> world.odometry]
  BY <1>1, <1>2, <1>3
<1>5. PerceptionTyped
  BY <1>2, <1>4 DEF PerceptionInit, PerceptionTyped, NoMap
<1>6. MarksFollow /\ LatchesFollow
  BY DEF PerceptionInit, MarksFollow, LatchesFollow, NoMap
<1>7. QED
  BY <1>5, <1>6 DEF PerceptionInvariant

\* Every step keeps the invariant of the monitor.
LEMMA PerceptionKeeps ==
  PerceptionInvariant /\ [PerceptionNext]_perceptionVars => PerceptionInvariant'
<1> SUFFICES ASSUME PerceptionInvariant, [PerceptionNext]_perceptionVars
             PROVE  PerceptionInvariant'
  OBVIOUS
<1>1. PerceptionTyped /\ MarksFollow /\ LatchesFollow
  BY DEF PerceptionInvariant
<1>2. /\ Now \in Nat \ {0} /\ DOMAIN world.pose = 1 .. Now
      /\ world.frame \in Frames /\ world.odometry \subseteq 1 .. Now
      /\ \A t \in 1 .. Now : world.pose[t] \in Int
      /\ world = [frame |-> world.frame, pose |-> world.pose, odometry |-> world.odometry]
      /\ ears \in [scan: 0 .. Now, odom: 0 .. Now, tf: 0 .. Now, depth: 0 .. Now]
      /\ DOMAIN maps = Names /\ \A n \in Names : DOMAIN maps[n] = {"stamp", "center", "marks"}
      /\ monitor \in [alive: BOOLEAN, requireDepth: BOOLEAN, ready: BOOLEAN,
                     latched: SUBSET Names, zone: BOOLEAN, registered: BOOLEAN]
      /\ marked \subseteq Names
  BY <1>1 DEF PerceptionTyped
<1>3. ASSUME NEW later \in Nat, Now' = later, later >= Now, world'.frame = world.frame,
             DOMAIN world'.pose = 1 .. later, \A t \in 1 .. later : world'.pose[t] \in Int,
             world'.odometry \subseteq 1 .. later,
             world' = [frame |-> world'.frame, pose |-> world'.pose,
                       odometry |-> world'.odometry],
             UNCHANGED <<wired, ears, maps, monitor, marked>>
      PROVE  PerceptionInvariant'
  <2>1. ears \in [scan: 0 .. later, odom: 0 .. later, tf: 0 .. later, depth: 0 .. later]
    BY <1>2, <1>3
  <2>2. PerceptionTyped'
    BY <1>2, <1>3, <2>1 DEF PerceptionTyped
  <2>3. MarksFollow' /\ LatchesFollow'
    BY <1>1, <1>3 DEF MarksFollow, LatchesFollow, FrameIsRight
  <2>4. QED
    BY <2>2, <2>3 DEF PerceptionInvariant
<1>4. ASSUME NEW step \in {0, 1}, Drive(step) PROVE PerceptionInvariant'
  <2> DEFINE pose == [t \in 1 .. Now + 1 |-> IF t <= Now THEN world.pose[t]
                                                         ELSE world.pose[Now] + step]
  <2>1. /\ world' = [world EXCEPT !.pose = pose]
        /\ UNCHANGED <<wired, ears, maps, monitor, marked>>
    BY <1>4 DEF Drive
  <2>2. DOMAIN pose = 1 .. Now + 1 /\ \A t \in 1 .. Now + 1 : pose[t] \in Int
    BY <1>2
  <2> HIDE DEF pose
  <2>3. world' = [frame |-> world.frame, pose |-> pose, odometry |-> world.odometry]
    BY <1>2, <2>1
  <2>4. /\ world'.frame = world.frame /\ world'.pose = pose /\ world'.odometry = world.odometry
    BY <2>3
  <2>5. Now' = Now + 1
    <3>1. Cardinality(1 .. Now + 1) = Now + 1
      <4>1. 1 \in Int /\ Now + 1 \in Int /\ ~ (1 > Now + 1) /\ (Now + 1) - 1 + 1 = Now + 1
        BY <1>2
      <4>2. QED
        BY <4>1, FS_Interval
    <3>2. QED
      BY <2>2, <2>4, <3>1 DEF Now
  <2>6. world'.odometry \subseteq 1 .. Now + 1 /\ Now + 1 \in Nat /\ Now + 1 >= Now
    BY <1>2, <2>4
  <2>7. QED
    BY <1>3, <2>1, <2>2, <2>3, <2>4, <2>5, <2>6
<1>5. CASE OdometryPublished
  <2>1. /\ world' = [world EXCEPT !.odometry = @ \cup {Now}]
        /\ UNCHANGED <<wired, ears, maps, monitor, marked>>
    BY <1>5 DEF OdometryPublished
  <2>2. world' = [frame |-> world.frame, pose |-> world.pose,
                  odometry |-> world.odometry \cup {Now}]
    BY <1>2, <2>1
  <2>3. /\ world'.frame = world.frame /\ world'.pose = world.pose
        /\ world'.odometry = world.odometry \cup {Now}
    BY <2>2
  <2>4. Now' = Now
    BY <2>3 DEF Now
  <2>5. world'.odometry \subseteq 1 .. Now /\ Now \in Nat /\ Now >= Now
    BY <1>2, <2>3
  <2>6. QED
    BY <1>2, <1>3, <2>1, <2>2, <2>3, <2>4, <2>5
<1>6. ASSUME world' = world, maps' = maps, monitor' = monitor, marked' = marked,
             ears' \in [scan: 0 .. Now, odom: 0 .. Now, tf: 0 .. Now, depth: 0 .. Now]
      PROVE  PerceptionInvariant'
  <2>1. Now' = Now
    BY <1>6 DEF Now
  <2>2. PerceptionTyped'
    BY <1>2, <1>6, <2>1 DEF PerceptionTyped
  <2>3. MarksFollow' /\ LatchesFollow'
    BY <1>1, <1>6 DEF MarksFollow, LatchesFollow, FrameIsRight
  <2>4. QED
    BY <2>2, <2>3 DEF PerceptionInvariant
<1>7. CASE Wire
  BY <1>2, <1>6, <1>7 DEF Wire
<1>8. ASSUME NEW topic \in {"scan", "odom", "tf", "depth"}, NEW stamps \in SUBSET (1 .. Now),
             Hear(topic, stamps)
      PROVE  PerceptionInvariant'
  <2>1. PICK s \in stamps : ears' = [ears EXCEPT ![topic] = s]
    BY <1>8 DEF Hear
  <2>2. s \in 0 .. Now
    BY <1>2
  <2>3. ears' \in [scan: 0 .. Now, odom: 0 .. Now, tf: 0 .. Now, depth: 0 .. Now]
    BY <1>2, <2>1, <2>2
  <2>4. UNCHANGED <<world, maps, monitor, marked>>
    BY <1>8 DEF Hear
  <2>5. QED
    BY <1>6, <2>3, <2>4
<1>9. CASE HearScan \/ HearOdom \/ HearTransform \/ HearDepthPoints
  BY <1>2, <1>8, <1>9 DEF HearScan, HearOdom, HearTransform, HearDepthPoints
<1>10. ASSUME NEW name \in Names, CostmapCallback(name) PROVE PerceptionInvariant'
  <2>1. PICK marks \in {{}} \cup {{m} : m \in Markable} :
          /\ maps' = [maps EXCEPT ![name] =
               [stamp |-> Now, center |-> world.pose[Now] + world.frame.tf, marks |-> marks]]
          /\ marked' = IF world.frame.tf = 0 /\ marks \cap Cones \cap AZone # {}
                       THEN marked \cup {name} ELSE marked
    BY <1>10 DEF CostmapCallback
  <2>2. UNCHANGED <<world, wired, ears, monitor>>
    BY <1>10 DEF CostmapCallback
  <2>3. marks \subseteq Markable
    BY <2>1
  <2> DEFINE map == [stamp |-> Now, center |-> world.pose[Now] + world.frame.tf, marks |-> marks]
  <2>4. DOMAIN map = {"stamp", "center", "marks"} /\ map.marks = marks
    OBVIOUS
  <2>5. maps' = [maps EXCEPT ![name] = map]
    BY <2>1
  <2> HIDE DEF map
  <2>6. /\ DOMAIN maps' = Names /\ maps'[name] = map
        /\ \A n \in Names \ {name} : maps'[n] = maps[n]
    BY <1>2, <2>5
  <2>7. marked' \subseteq Names /\ marked \subseteq marked'
    BY <1>2, <2>1
  <2>8. Now' = Now
    BY <2>2 DEF Now
  <2>9. PerceptionTyped'
    BY <1>2, <2>2, <2>4, <2>6, <2>7, <2>8 DEF PerceptionTyped
  <2>10. MarksFollow'
    <3> SUFFICES ASSUME FrameIsRight, NEW n \in Names
                 PROVE  /\ maps'[n].marks \subseteq Cones
                        /\ maps'[n].marks \cap AZone # {} => n \in marked'
      BY <2>2 DEF MarksFollow, FrameIsRight
    <3>1. CASE n = name
      <4>1. marks \subseteq Cones
        BY <1>1, <2>3, MarkableAreCones
      <4>2. marks \cap AZone # {} => name \in marked'
        BY <2>1, <4>1 DEF FrameIsRight
      <4>3. QED
        BY <2>4, <2>6, <3>1, <4>1, <4>2
    <3>2. CASE n # name
      BY <1>1, <2>6, <2>7, <3>2 DEF MarksFollow
    <3>3. QED
      BY <3>1, <3>2
  <2>11. LatchesFollow'
    BY <1>1, <2>2, <2>7 DEF LatchesFollow, FrameIsRight
  <2>12. QED
    BY <2>9, <2>10, <2>11 DEF PerceptionInvariant
<1>11. ASSUME UNCHANGED <<world, wired, ears, maps, marked>>,
              NEW alive \in BOOLEAN, NEW ready \in BOOLEAN, NEW zone \in BOOLEAN,
              NEW registered \in BOOLEAN, NEW latched \in SUBSET Names,
              monitor' = [monitor EXCEPT !.alive = alive, !.ready = ready,
                            !.registered = registered, !.zone = zone, !.latched = latched],
              registered => world.frame.tf = 0, FrameIsRight /\ zone => marked = Names,
              ready => FrameIsRight /\ marked = Names
       PROVE  PerceptionInvariant'
  <2>1. Now' = Now
    BY <1>11 DEF Now
  <2>2. /\ monitor' \in [alive: BOOLEAN, requireDepth: BOOLEAN, ready: BOOLEAN,
                        latched: SUBSET Names, zone: BOOLEAN, registered: BOOLEAN]
        /\ monitor'.ready = ready /\ monitor'.registered = registered /\ monitor'.zone = zone
    BY <1>2, <1>11
  <2>3. PerceptionTyped'
    BY <1>2, <1>11, <2>1, <2>2 DEF PerceptionTyped
  <2>4. MarksFollow'
    BY <1>1, <1>11 DEF MarksFollow, FrameIsRight
  <2>5. LatchesFollow'
    BY <1>11, <2>2 DEF LatchesFollow, FrameIsRight
  <2>6. QED
    BY <2>3, <2>4, <2>5 DEF PerceptionInvariant
<1>12. ASSUME NEW t, Evaluate(t) PROVE PerceptionInvariant'
  <2> DEFINE r == AllChecks(t)
             g == Registers(t)
             z == ZonePasses(t)
             L == {n \in Names : Latches(n, t)}
  <2>1. r \in BOOLEAN /\ g \in BOOLEAN /\ z \in BOOLEAN /\ L \in SUBSET Names
    BY DEF AllChecks, Registers, ZonePasses
  <2>2. (g => world.frame.tf = 0) /\ (FrameIsRight /\ z => marked = Names)
        /\ (r => FrameIsRight /\ marked = Names)
    BY EvaluationFollows
  <2>3. UNCHANGED <<world, wired, ears, maps, marked>> /\ monitor.alive
    BY <1>12 DEF Evaluate
  <2>4. \/ monitor' = [monitor EXCEPT !.alive = FALSE]
        \/ monitor' = [monitor EXCEPT !.ready = r, !.registered = g, !.zone = z, !.latched = L]
    BY <1>12 DEF Evaluate
  <2> HIDE DEF r, g, z, L
  <2>5. CASE monitor' = [monitor EXCEPT !.alive = FALSE]
    <3>1. monitor' = [monitor EXCEPT !.alive = FALSE, !.ready = monitor.ready,
                        !.registered = monitor.registered, !.zone = monitor.zone,
                        !.latched = monitor.latched]
      BY <1>2, <2>5
    <3>2. /\ monitor.ready \in BOOLEAN /\ monitor.registered \in BOOLEAN
          /\ monitor.zone \in BOOLEAN /\ monitor.latched \in SUBSET Names
      BY <1>2
    <3>3. /\ monitor.registered => world.frame.tf = 0
          /\ FrameIsRight /\ monitor.zone => marked = Names
          /\ monitor.ready => FrameIsRight /\ marked = Names
      BY <1>1 DEF LatchesFollow
    <3>4. QED
      BY <1>11, <2>3, <3>1, <3>2, <3>3
  <2>6. CASE monitor' = [monitor EXCEPT !.ready = r, !.registered = g, !.zone = z, !.latched = L]
    <3>1. monitor' = [monitor EXCEPT !.alive = TRUE, !.ready = r, !.registered = g,
                        !.zone = z, !.latched = L]
      BY <1>2, <2>1, <2>3, <2>6
    <3>2. QED
      BY <1>11, <2>1, <2>2, <2>3, <3>1
  <2>7. QED
    BY <2>4, <2>5, <2>6
<1>13. CASE UNCHANGED perceptionVars
  BY <1>2, <1>6, <1>13 DEF perceptionVars
<1>14. QED
  BY <1>4, <1>5, <1>7, <1>9, <1>10, <1>12, <1>13 DEF PerceptionNext

\* The monitor of the simulation: types, what was marked, and what its latches tell.
THEOREM PerceptionInvariantHolds == PerceptionSpec => []PerceptionInvariant
  BY PerceptionStarts, PerceptionKeeps, PTL DEF PerceptionSpec

\* The monitor says ready only in a frame in which the cones are where they stand, and
\* after each of the two costmaps has itself held a cone of the A zone.
THEOREM ReadyAlwaysOfThisWorld == PerceptionSpec => []ReadyIsOfThisWorld
<1>1. PerceptionInvariant => ReadyIsOfThisWorld
  BY DEF PerceptionInvariant, LatchesFollow, FrameIsRight, ReadyIsOfThisWorld
<1>2. QED
  BY <1>1, PerceptionInvariantHolds, PTL

=============================================================================
