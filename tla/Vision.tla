------------------------------- MODULE Vision -------------------------------
(***************************************************************************)
(* Reading the QR code and describing the scene: the mission thread with   *)
(* its client (RosVision), the vision node with one service at a time, the *)
(* two sample buffers its subscriptions fill, and the scene service behind *)
(* an HTTPS request.                                                       *)
(*                                                                         *)
(* A tick is coarse: a message, a callback or the start of a request takes *)
(* at most Transport ticks, everything else that is due happens before the *)
(* next tick.  The ROS clock does not jump.  A new mission starts where    *)
(* the one before it failed.                                               *)
(***************************************************************************)
EXTENDS Integers, Sequences, FiniteSets, SequencesExt

CONSTANTS
  Plans,         \* tasks of one mission after the other: sequences of "qr" and "vlm"
  Transport,     \* delivery takes at most this long
  QrTimeout, QrRetries, RetryDelay, ReaderStartup,
  VlmTimeout, MaxVlmTimeout,
  Grace,         \* what describe_scene waits beyond the service's budget
  Overrun,       \* a request to the scene service may exceed its socket timeout by this
  Codes,         \* what a barcode says; "" is an empty one
  Replies,       \* what the scene service may answer
  MaxSamples,    \* bound: messages on each topic
  MaxTime        \* bound: ticks

ASSUME VisionAssumption ==
  /\ \A plan \in Plans : plan \in Seq({"qr", "vlm"}) /\ plan # <<>>
  /\ {Transport, QrRetries, RetryDelay, ReaderStartup, Grace, Overrun, MaxTime} \subseteq Nat
  /\ {QrTimeout, VlmTimeout, MaxVlmTimeout} \subseteq Nat \ {0}

VARIABLES
  now,
  client,      \* the mission thread
  callbacks,   \* subscription callbacks between their time stamp and put()
  latest,      \* the two TimedSampleBuffers
  received,    \* history: the samples put during this call
  arrived,     \* messages so far, per topic
  requests, server, answers

vars == <<now, client, callbacks, latest, received, arrived, requests, server, answers>>
samples == <<callbacks, latest, arrived>>
wires == <<requests, server, answers>>

Topics == {"barcode", "image"}
TopicOf(task) == IF task = "qr" THEN "barcode" ELSE "image"
NoSample == [received |-> -1, value |-> ""]
Least(a, b) == IF a < b THEN a ELSE b

-----------------------------------------------------------------------------
(* The scene service (volcengine_vlm_cli.py): its description, "" for every failure. *)

CanAsk(reply) == reply.key /\ reply.payload

(* extract_description *)
Extracted(body) ==
  IF body.status \notin {"", "completed"} THEN ""
  ELSE IF body.output_text # "" THEN body.output_text ELSE body.output

(* Mistake: the status of the response is not looked at. *)
DescriptionAnyway(reply) ==
  IF CanAsk(reply) /\ reply.code = 200
  THEN IF reply.body.output_text # "" THEN reply.body.output_text ELSE reply.body.output ELSE ""

(* request_description_bytes *)
Description(reply) ==
  IF CanAsk(reply) /\ reply.code = 200 /\ reply.whole THEN Extracted(reply.body) ELSE ""

-----------------------------------------------------------------------------
(* The subscriptions: reentrant, so several callbacks may be under way. *)

(* _on_image, _on_barcode: the receipt time is read first.  A message of a
   reader that was stopped since may still arrive. *)
Arrives(topic, value) ==
  /\ arrived[topic] < MaxSamples[topic] /\ client.phase # "done"
  /\ arrived' = [arrived EXCEPT ![topic] = @ + 1]
  /\ callbacks' = callbacks \cup
       {[topic |-> topic, received |-> now, value |-> value, n |-> arrived[topic]]}
  /\ UNCHANGED <<now, client, latest, received, wires>>

(* Mistake: an older sample replaces a newer one. *)
NewestAnyOrder(old, sample) == sample

Newest(old, sample) == IF sample.received < old.received THEN old ELSE sample

(* TimedSampleBuffer.put *)
Put(callback) ==
  LET sample == [received |-> callback.received, value |-> callback.value]
  IN /\ callbacks' = callbacks \ {callback}
     /\ latest' = [latest EXCEPT ![callback.topic] = Newest(@, sample)]
     /\ received' = [received EXCEPT ![callback.topic] = @ \cup {sample}]
     /\ UNCHANGED <<now, client, arrived, wires>>

-----------------------------------------------------------------------------
(* The vision node: both services in one exclusive group, requests of one in order. *)

Answer(ok, status, sample, text) ==
  /\ answers' = answers \cup
       {[id |-> server.request.id, ok |-> ok, status |-> status, sample |-> sample,
         text |-> text, due |-> now + Transport]}
  /\ server' = [server EXCEPT !.phase = "idle"]

Serve(i) ==
  LET request == requests[i]
      budget == IF request.task = "qr" THEN QrTimeout ELSE Least(VlmTimeout, MaxVlmTimeout)
  IN /\ server.phase = "idle"
     /\ \A j \in 1 .. i - 1 : requests[j].task # request.task
     /\ requests' = RemoveAt(requests, i)
     /\ server' = [phase |-> "sample", request |-> request, deadline |-> now + budget, sample |-> NoSample]
     /\ UNCHANGED <<now, client, samples, received, answers>>

(* wait_for: a sample received since the request's threshold. *)
HasSample ==
  /\ server.phase = "sample"
  /\ latest[TopicOf(server.request.task)].received >= server.request.notBefore

SampleTimesOut ==
  /\ server.phase = "sample" /\ ~ HasSample /\ now >= server.deadline
  /\ Answer(FALSE, "sample_timeout", NoSample, "")
  /\ UNCHANGED <<now, client, samples, received, requests>>

ReadQr ==
  LET sample == latest["barcode"]
  IN /\ HasSample /\ server.request.task = "qr"
     /\ Answer(sample.value # "", IF sample.value = "" THEN "qr_empty" ELSE "ok", sample, sample.value)
     /\ UNCHANGED <<now, client, samples, received, requests>>

(* The image is encoded and, with time left, sent. *)
DescribeScene ==
  /\ HasSample /\ server.request.task = "vlm" /\ now < server.deadline
  /\ server' = [server EXCEPT !.phase = "backend", !.sample = latest["image"]]
  /\ UNCHANGED <<now, client, samples, received, requests, answers>>

DescribeFails ==
  /\ HasSample /\ server.request.task = "vlm"
  /\ \E status \in {"jpeg_error", "vlm_timeout"} :
       /\ status = "vlm_timeout" => now >= server.deadline
       /\ Answer(FALSE, status, latest["image"], "")
  /\ UNCHANGED <<now, client, samples, received, requests>>

BackendReturns(reply) ==
  LET text == Description(reply)
      ok == now < server.deadline /\ text # ""
  IN /\ server.phase = "backend"
     /\ Answer(ok, IF ok THEN "ok" ELSE "backend", server.sample, reply)
     /\ UNCHANGED <<now, client, samples, received, requests>>

-----------------------------------------------------------------------------
(* The mission thread: _run_qr, _run_vlm and RosVision. *)

Task == client.plan[client.at]
Calling == client.phase = "await"

(* _run_qr: the threshold is read before the reader is started (_ensure_reader);
   read_qr stops it again, so that every attempt starts one. *)
BeginQr ==
  /\ client.phase = "begin" /\ Task = "qr"
  /\ client' = [client EXCEPT !.phase = "starting", !.notBefore = now, !.wake = now + ReaderStartup]
  /\ UNCHANGED <<now, samples, received, wires>>

Send(timeout, notBefore) ==
  /\ client' = [client EXCEPT !.phase = "await", !.id = @ + 1, !.notBefore = notBefore, !.wake = now + timeout]
  /\ requests' = Append(requests, [id |-> client.id + 1, task |-> Task, notBefore |-> notBefore,
                                   due |-> now + Transport])

SendQr ==
  /\ client.phase = "starting" /\ now >= client.wake
  /\ Send(QrTimeout, client.notBefore)
  /\ UNCHANGED <<now, samples, received, server, answers>>

(* _run_vlm, describe_scene: the service has the whole budget, the call a little more. *)
SendVlm ==
  /\ client.phase = "begin" /\ Task = "vlm"
  /\ Send(VlmTimeout + Grace, now)
  /\ UNCHANGED <<now, samples, received, server, answers>>

(* What follows a call is decided in _run_qr and _run_vlm. *)
After(ok) ==
  LET again == Task = "qr" /\ ~ ok /\ client.attempt <= QrRetries
      next == IF again THEN [client EXCEPT !.phase = "delay", !.attempt = @ + 1, !.wake = now + RetryDelay]
              ELSE [client EXCEPT !.at = @ + 1, !.attempt = 1,
                                  !.phase = IF client.at = Len(client.plan) THEN "done" ELSE "begin"]
  IN client' = next /\ received' = [t \in Topics |-> {}]

(* Mistake: the answer to a call given up is taken for the answer to this one. *)
MineOrLate(answer) == answer.id <= client.id

Mine(answer) == answer.id = client.id

TakeAnswer(answer) ==
  /\ Calling /\ Mine(answer)
  /\ answers' = answers \ {answer} /\ After(answer.ok)
  /\ UNCHANGED <<now, samples, requests, server>>

(* _remove_pending: an answer to a call that was given up finds nobody. *)
DropAnswer(answer) ==
  /\ ~ (Calling /\ answer.id = client.id) /\ answers' = answers \ {answer}
  /\ UNCHANGED <<now, client, samples, received, requests, server>>

CallTimesOut == Calling /\ now >= client.wake /\ After(FALSE) /\ UNCHANGED <<now, samples, wires>>

Retry ==
  /\ client.phase = "delay" /\ now >= client.wake
  /\ client' = [client EXCEPT !.phase = "begin"]
  /\ UNCHANGED <<now, samples, received, wires>>

-----------------------------------------------------------------------------
(* Time. *)

Due ==
  \/ client.phase = "begin"
  \/ client.phase \in {"starting", "await", "delay"} /\ now >= client.wake
  \/ server.phase = "idle" /\ \E i \in DOMAIN requests : now >= requests[i].due
  \/ server.phase = "sample" /\ (HasSample \/ now >= server.deadline)
  \/ server.phase = "backend" /\ now >= server.deadline + Overrun
  \/ \E a \in answers : now >= a.due
  \/ \E c \in callbacks : now >= c.received + Transport

Tick ==
  /\ now < MaxTime /\ client.phase # "done" /\ ~ Due
  /\ now' = now + 1 /\ UNCHANGED <<client, samples, received, wires>>

Init ==
  /\ now = 0
  /\ \E plan \in Plans :
       client = [plan |-> plan, phase |-> "begin", at |-> 1, attempt |-> 1, id |-> 0, notBefore |-> 0, wake |-> 0]
  /\ callbacks = {} /\ arrived = [t \in Topics |-> 0]
  /\ latest = [t \in Topics |-> NoSample] /\ received = [t \in Topics |-> {}]
  /\ requests = <<>> /\ answers = {}
  /\ server = [phase |-> "idle", request |-> [id |-> 0, task |-> "qr", notBefore |-> 0, due |-> 0],
               deadline |-> 0, sample |-> NoSample]

Next ==
  \/ \E code \in Codes : Arrives("barcode", code)
  \/ Arrives("image", "scene")
  \/ \E c \in callbacks : Put(c)
  \/ \E i \in DOMAIN requests : Serve(i)
  \/ SampleTimesOut \/ ReadQr \/ DescribeScene \/ DescribeFails
  \/ \E reply \in Replies : BackendReturns(reply)
  \/ BeginQr \/ SendQr \/ SendVlm
  \/ \E a \in answers : TakeAnswer(a) \/ DropAnswer(a)
  \/ CallTimesOut \/ Retry \/ Tick

Spec == Init /\ [][Next]_vars

-----------------------------------------------------------------------------
(* Properties. *)

(* A success that the mission acts on rests on a sample received no earlier
   than the threshold of this very attempt: never on the answer to an attempt
   given up, nor on a sample from before the car stood (RosVision, wait_for). *)
SuccessIsFresh ==
  [][\A a \in answers : TakeAnswer(a) /\ a.ok => a.sample.received >= client.notBefore]_vars

(* A description is acted on only if the scene service answered with a whole,
   completed response, in time (_on_describe_scene, extract_description). *)
DescriptionIsComplete ==
  [][\A a \in answers : TakeAnswer(a) /\ a.ok /\ Task = "vlm" =>
       /\ a.text.code = 200 /\ a.text.whole /\ a.text.body.status \in {"", "completed"}
       /\ a.text.body.output_text # "" \/ a.text.body.output # ""]_vars

InTime(topic) ==
  \E s \in received[topic] : s.received >= client.notBefore /\ s.received + 2 * Transport < client.wake

(* No call fails for want of a sample that came in its time, although the
   client waits no longer than it asks the service to wait and a retry queues
   behind the attempt it follows: all that is lost is the time two messages
   take (read_qr, describe_scene, the exclusive service group). *)
SampleInTimeIsServed ==
  [][/\ Calling /\ InTime(TopicOf(Task))
     /\ (CallTimesOut /\ Task = "qr") \/ \E a \in answers : TakeAnswer(a) /\ a.status = "sample_timeout"
     => FALSE]_vars

(* What makes the first two inductive, part by part. *)

Sample(s) == s.received \in Int
Request == [id: Nat, task: {"qr", "vlm"}, notBefore: Nat, due: Nat]

VisionTyped ==
  /\ now \in Nat
  /\ client.plan \in Plans /\ client.id \in Nat /\ client.notBefore \in Nat /\ client.at \in Nat \ {0}
  /\ client.phase \in {"begin", "starting", "await", "delay", "done"}
  /\ client.phase # "done" => client.at <= Len(client.plan)
  /\ client = [plan |-> client.plan, phase |-> client.phase, at |-> client.at,
               attempt |-> client.attempt, id |-> client.id, notBefore |-> client.notBefore,
               wake |-> client.wake]
  /\ \A c \in callbacks : Sample(c) /\ c.topic \in Topics
  /\ DOMAIN latest = Topics /\ \A topic \in Topics : Sample(latest[topic])
  /\ requests \in Seq(Request)
  /\ server.phase \in {"idle", "sample", "backend"} /\ server.request \in Request
  /\ server = [phase |-> server.phase, request |-> server.request,
               deadline |-> server.deadline, sample |-> server.sample]
  /\ Sample(server.sample)
  /\ \A a \in answers : a.id \in Nat /\ a.ok \in BOOLEAN /\ Sample(a.sample)

(* No request, nor an answer, carries a number that was not given yet. *)
NumbersFollow ==
  /\ \A i \in DOMAIN requests : requests[i].id <= client.id
  /\ server.phase # "idle" => server.request.id <= client.id
  /\ \A a \in answers : a.id <= client.id

(* What carries the number of the call is of that call. *)
IsOfCall(request) ==
  request.id = client.id => request.task = Task /\ request.notBefore = client.notBefore
AnswersCall(a) ==
  a.id = client.id /\ a.ok =>
    /\ a.sample.received >= client.notBefore
    /\ Task = "vlm" => a.text \in Replies /\ Description(a.text) # ""
CallFollows ==
  /\ server.phase = "backend" =>
       server.request.task = "vlm" /\ server.sample.received >= server.request.notBefore
  /\ Calling => /\ \A i \in DOMAIN requests : IsOfCall(requests[i])
                /\ server.phase # "idle" => IsOfCall(server.request)
                /\ \A a \in answers : AnswersCall(a)

(* All of the above, the inductive invariant of the calls. *)
VisionInvariant == VisionTyped /\ NumbersFollow /\ CallFollows
=============================================================================
