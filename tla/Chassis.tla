-------------------------------- MODULE Chassis --------------------------------
(* The chassis driver: commands and stops written to the serial port, the frames
   of the microcontroller read from it (origincar_base.cpp, serial_frame.hpp,
   command_watchdog.hpp).

   One thread serves the command topic and a timer of 5 ms.  A frame is a header,
   a payload, their exclusive or and a tail, and everything written or read may
   be cut short after any byte.  The microcontroller is not part of the
   repository: it takes frames from its line as the parser of the driver does,
   or counts bytes from a header and drops all of a bad frame, and turns its
   wheels as the newest good frame says.  *)
EXTENDS Integers, Sequences, FiniteSets, SequencesExt, Bitwise

CONSTANTS
  FrameHeader, FrameTail,
  Speeds,          \* payloads of commands that move the wheels; 0 stops them
  Readings,        \* payloads of the frames the microcontroller sends
  CommandTimeout,  \* command_timeout_sec, in periods of the timer
  ReadBudget,      \* kSerialReadBudgetPerCycle, in bytes
  MaxFrames,       \* bound: frames the microcontroller sends
  MaxDamaged,      \* bound: frames of those that are damaged on their way
  None

VARIABLES
  chassis,  \* the node, with the microcontroller's end of the command line
  line,     \* bytes sent by the microcontroller and not yet read
  readings, \* history: payload of each frame sent
  damaged,  \* number of those that were damaged
  recent,   \* history: the bytes that came last on the line, fewer than a frame
  mimics,   \* history: frames in which bytes end that read as a frame and are none
  arrived,  \* history: newest undamaged frame read to its end
  newest    \* history: newest command heard, and the time since

chassisVars == <<chassis, line, readings, damaged, recent, mimics, arrived, newest>>

(* Frames, and the two ways to find them in a line that lost bytes. *)

Frame(payload) == <<FrameHeader, payload, FrameHeader ^^ payload, FrameTail>>
FrameSize == Len(Frame(0))
StopFrame == Frame(0)
Zeros == [i \in 1 .. FrameSize |-> 0]
\* Mistake: the stop frame alone, with nothing to fill up a frame cut short.
RecoveryUnaligned == StopFrame

RecoveryStream == Zeros \o StopFrame

ValidFrame(bytes) ==
  bytes[FrameSize] = FrameTail /\ bytes[3] = bytes[1] ^^ bytes[2]

Byte(value, of, last) == [value |-> value, of |-> of, last |-> last]
Values(bytes) == [i \in DOMAIN bytes |-> bytes[i].value]

FromHeader(bytes) ==
  LET headers == {i \in DOMAIN bytes : bytes[i].value = FrameHeader} IN
  IF headers = {} THEN <<>> ELSE SubSeq(bytes, Min(headers), Len(bytes))

\* One more byte at a reader: a good frame is taken, a bad one drops its header and
\* is searched for the next, or is dropped as a whole.
Take(rescans, reader, byte) ==
  LET bytes == FromHeader(Append(reader.buffer, byte)) IN
  IF Len(bytes) < FrameSize THEN [reader EXCEPT !.buffer = bytes]
  ELSE IF ValidFrame(Values(bytes))
    THEN [buffer |-> <<>>, latest |-> [payload |-> bytes[2].value, of |-> bytes[FrameSize].of]]
  ELSE [reader EXCEPT !.buffer = IF rescans THEN FromHeader(Tail(bytes)) ELSE <<>>]

TakeAll(rescans, reader, bytes) ==
  FoldLeft(LAMBDA r, b : Take(rescans, r, b), reader, bytes)

(* Writing. *)

\* The bytes reach the microcontroller.
Fed(c, values) ==
  LET bytes == [i \in DOMAIN values |-> Byte(values[i], 0, FALSE)]
      motor == TakeAll(c.rescans, [buffer |-> c.motor, latest |-> None], bytes)
  IN [c EXCEPT !.motor = motor.buffer,
               !.wheels = IF motor.latest = None THEN @ ELSE motor.latest.payload]

\* A write that failed: by a short count, or by an exception after any of its bytes.
FedInPart(c, values) == {Fed(c, SubSeq(values, 1, k)) : k \in 0 .. Len(values)}

\* The command path latches, the recovery stream is tried twice, and the node ends.
Handle_Serial_Write_Failure(c) ==
  LET latched == [c EXCEPT !.latched = TRUE, !.up = FALSE]
      second == FedInPart(latched, RecoveryStream)
  IN {Fed(s, RecoveryStream) : s \in {latched} \cup second}
       \cup {[s EXCEPT !.lost = TRUE] : s \in UNION {FedInPart(t, RecoveryStream) : t \in second}}

Write_Command(c, frame) ==
  IF c.latched THEN {c}
  ELSE {Fed(c, frame)} \cup UNION {Handle_Serial_Write_Failure(s) : s \in FedInPart(c, frame)}

Send_Stop_Command(c) == Write_Command(c, StopFrame)

(* Commands. *)

\* A message that can be encoded: the watchdog is armed, the frame written.
Akm_Cmd_Vel(speed) ==
  /\ chassis.up
  /\ chassis' \in Write_Command([chassis EXCEPT !.armed = TRUE, !.age = 0], Frame(speed))
  /\ newest' = [speed |-> speed, silence |-> 0]
  /\ UNCHANGED <<line, readings, damaged, recent, mimics, arrived>>

\* A message that cannot: a stop, and the watchdog is left as it was.
Akm_Cmd_Vel_Rejected ==
  /\ chassis.up
  /\ chassis' \in Send_Stop_Command(chassis)
  /\ newest' = [speed |-> 0, silence |-> 0]
  /\ UNCHANGED <<line, readings, damaged, recent, mimics, arrived>>

(* The timer. *)

\* A period passes; the timer is due and comes before the next one.
Pass ==
  /\ chassis.up /\ ~chassis.due
  /\ chassis' = [chassis EXCEPT !.due = TRUE,
                                !.age = IF @ < CommandTimeout THEN @ + 1 ELSE @]
  /\ newest' = [newest EXCEPT !.silence = IF @ <= CommandTimeout THEN @ + 1 ELSE @]
  /\ UNCHANGED <<line, readings, damaged, recent, mimics, arrived>>

\* consume_stop: one stop for each silence, whatever becomes of it.
Watched(c) ==
  IF c.armed /\ c.age >= CommandTimeout
  THEN Send_Stop_Command([c EXCEPT !.armed = FALSE])
  ELSE {c}

\* Mistake: a frame in hand waits until the line is empty.
DeferPendingFrame(backlog, deferred, received) ==
  CASE backlog                            -> "defer"
    [] ~backlog /\ received               -> "publish"
    [] ~backlog /\ ~received /\ deferred  -> "discard"
    [] OTHER                              -> "publish"

choose_pending_frame_action(backlog, deferred, received) ==
  CASE received                           -> "publish"
    [] ~received /\ backlog               -> "defer"
    [] ~received /\ ~backlog /\ deferred  -> "discard"
    [] OTHER                              -> "publish"

\* Get_Sensor_Data after the bytes were read: the newest good frame is offered, and
\* published, kept for the next cycle or dropped.  A frame kept may have expired.
Sensed(c, bytes, backlog) ==
  LET reader == TakeAll(TRUE, [buffer |-> c.buffer, latest |-> None], bytes)
      received == reader.latest # None
      pending == IF received THEN reader.latest ELSE c.pending
      read == [c EXCEPT !.buffer = reader.buffer]
  IN CASE choose_pending_frame_action(backlog, c.deferred, received) = "defer" ->
            {[read EXCEPT !.pending = pending, !.deferred = pending # None]}
       [] choose_pending_frame_action(backlog, c.deferred, received) = "discard" ->
            {[read EXCEPT !.pending = None, !.deferred = FALSE]}
       [] OTHER ->
            LET kept == [read EXCEPT !.pending = None, !.deferred = FALSE]
                published == IF pending = None THEN kept ELSE [kept EXCEPT !.published = pending]
            IN IF received THEN {published} ELSE {published, kept}

\* The newest undamaged frame whose last byte was read.
Arrival(bytes) == Max({arrived} \cup {bytes[i].of : i \in {j \in DOMAIN bytes : bytes[j].last}})

\* A read may fall short of what the line holds, and a cycle reads no more than its budget.
ReadSizes == 0 .. Min({Len(line), ReadBudget})

\* on_serial_tick: the watchdog, then the sensors.
SerialTick ==
  /\ chassis.up /\ chassis.due
  /\ \E c \in Watched([chassis EXCEPT !.due = FALSE]), n \in ReadSizes :
       LET bytes == SubSeq(line, 1, n) IN
       /\ chassis' \in Sensed(c, bytes, n < Len(line))
       /\ line' = SubSeq(line, n + 1, Len(line))
       /\ arrived' = Arrival(bytes)
  /\ UNCHANGED <<readings, damaged, recent, mimics, newest>>

\* The read throws: the car is stopped and the node ends.
SerialTickFails ==
  /\ chassis.up /\ chassis.due
  /\ \E c \in Watched([chassis EXCEPT !.due = FALSE]) :
       chassis' \in {[s EXCEPT !.up = FALSE] : s \in Send_Stop_Command(c)}
  /\ UNCHANGED <<line, readings, damaged, recent, mimics, arrived, newest>>

\* SIGINT, or the end of the launch.
Interrupt ==
  /\ chassis.up
  /\ chassis' = [chassis EXCEPT !.up = FALSE]
  /\ UNCHANGED <<line, readings, damaged, recent, mimics, arrived, newest>>

\* ~origincar_base: a last stop, unless the path is latched.
Destroy ==
  /\ ~chassis.up /\ ~chassis.gone
  /\ chassis' \in {[s EXCEPT !.gone = TRUE] : s \in Send_Stop_Command(chassis)}
  /\ UNCHANGED <<line, readings, damaged, recent, mimics, arrived, newest>>

\* On its way a frame may lose a run of its bytes, or have one byte turned into another.
Damaged(bytes) ==
  {SubSeq(bytes, 1, first - 1) \o SubSeq(bytes, next, FrameSize) :
     <<first, next>> \in {p \in (1 .. FrameSize) \X (2 .. FrameSize + 1) : p[1] < p[2]}}
  \cup {[bytes EXCEPT ![p[1]].value = p[2]] :
          p \in {q \in (1 .. FrameSize) \X (Readings \cup {FrameHeader, FrameTail}) :
                  bytes[q[1]].value # q[2]}}

\* As many bytes in a row as a frame has, that read as a frame and are not one that came whole.
Mimics(bytes) ==
  \E i \in FrameSize .. Len(bytes) :
    /\ ~ bytes[i].last
    /\ Values(SubSeq(bytes, i - FrameSize + 1, i)) = Frame(bytes[i - FrameSize + 2].value)

\* The microcontroller sends a frame, which comes whole or damaged.
SendsFrame ==
  /\ Len(readings) < MaxFrames
  /\ \E payload \in Readings, whole \in BOOLEAN :
       LET of == Len(readings) + 1
           sent == [i \in 1 .. FrameSize |-> Byte(Frame(payload)[i], of, whole /\ i = FrameSize)]
       IN /\ whole \/ damaged < MaxDamaged
          /\ damaged' = damaged + (IF whole THEN 0 ELSE 1)
          /\ readings' = Append(readings, payload)
          /\ \E bytes \in IF whole THEN {sent} ELSE Damaged(sent) :
               LET stream == recent \o bytes IN
               /\ line' = line \o bytes
               /\ recent' = SubSeq(stream, Max({1, Len(stream) - FrameSize + 2}), Len(stream))
               /\ mimics' = mimics \cup IF Mimics(stream) THEN {of} ELSE {}
  /\ UNCHANGED <<chassis, arrived, newest>>

\* The port opens, or the node is latched and ends at once.  A driver that died in the
\* middle of a write may have left the beginning of a frame with the microcontroller.
ChassisInit ==
  /\ \E opened, rescans \in BOOLEAN, speed \in Speeds, left \in 0 .. FrameSize - 1 :
       chassis = [up |-> opened, latched |-> ~opened, gone |-> FALSE, lost |-> FALSE,
                  armed |-> FALSE, age |-> 0, due |-> FALSE,
                  buffer |-> <<>>, pending |-> None, deferred |-> FALSE,
                  published |-> None, rescans |-> rescans, wheels |-> 0,
                  motor |-> [i \in 1 .. left |-> Byte(Frame(speed)[i], 0, FALSE)]]
  /\ line = <<>> /\ readings = <<>> /\ damaged = 0 /\ arrived = 0
  /\ recent = <<>> /\ mimics = {}
  /\ newest = [speed |-> 0, silence |-> 0]

ChassisCommands ==
  \/ \E speed \in Speeds \cup {0} : Akm_Cmd_Vel(speed)
  \/ Akm_Cmd_Vel_Rejected

ChassisNode == Pass \/ SerialTick \/ SerialTickFails \/ Interrupt \/ Destroy

(* Properties. *)

\* The wheels turn only for the newest message on the command topic, one that could be
\* encoded, for no longer than the watchdog's time-out and a period of its timer, and never
\* once the driver has failed or gone: whatever was written in part, the recovery stream
\* lines the microcontroller up for a stop.  Only where the recovery stream itself never got
\* through twice, of which the node says "STM32 stop state is unverified", is nothing known
\* (origincar_base.cpp:212-296, command_watchdog.hpp:26-34).
WheelsFollowNewestCommand ==
  chassis.wheels # 0 /\ ~chassis.lost =>
    /\ chassis.wheels = newest.speed
    /\ newest.silence < CommandTimeout + (IF chassis.due THEN 1 ELSE 0)
    /\ ~chassis.latched /\ ~chassis.gone

\* Odometry is never behind what was read: after each cycle something as new as the newest
\* frame that came through whole has been published, however the reads cut the line and
\* however much is still queued, and it is what the microcontroller sent.  The exception is
\* a frame in which bytes of two frames, one of them damaged, pass for a frame by its tail
\* and its exclusive or: then those may be published in its place, and the next whole frame
\* ends it (Get_Sensor_Data, choose_pending_frame_action, pop_latest_frame).
NewestFrameIsPublished ==
  /\ arrived > 0 => chassis.published # None /\ chassis.published.of >= arrived
  /\ chassis.published # None /\ chassis.published.of \notin mimics =>
       chassis.published.payload = readings[chassis.published.of]

=============================================================================
