---------------------------- MODULE DriveToolsProofs ----------------------------
(***************************************************************************)
(* What is proved of the two scenes of the supervised drive.               *)
(*                                                                         *)
(* The Python safety node: ReferenceInvariant (types, no input from the    *)
(* future, the node and its guard count the same samples) is inductive,    *)
(* and under it every callback is the callback of the same name of         *)
(* SafetyNode.  The work is in the verdict: evaluate() asks a sequence of   *)
(* questions and answers with the first that is yes, the C++ guard is a    *)
(* conjunction; AllowedIs and SameVerdict show that they agree.            *)
(*                                                                         *)
(* The supervised drive: DriveInvariant is inductive.  Its parts are       *)
(* restated as predicates of a process, a queue and a car, so that the     *)
(* process before and after a call, or between hearing and asking, can be  *)
(* spoken of in the middle of a step.                                      *)
(***************************************************************************)
EXTENDS SafetyReference, ShortDrive, SequenceTheorems, WellFoundedInduction, TLAPS

-----------------------------------------------------------------------------
(* The questions of evaluate(). *)

\* A set of naturals with an element has a least one.
LEMMA MinIsLeast ==
  ASSUME NEW I \in SUBSET Nat, I # {}
  PROVE  Min(I) \in I
<1> DEFINE Below == {pair \in Nat \X Nat : pair[1] < pair[2]}
<1>1. PICK x \in I : \A y \in I : ~ (<<y, x>> \in Below)
  <2>1. IsWellFoundedOn(Below, Nat)
    BY NatLessThanWellFounded DEF OpToRel
  <2> HIDE DEF Below
  <2>2. QED
    BY <2>1, WFMin
<1>2. ASSUME NEW y \in I PROVE x <= y
  <2>1. <<y, x>> \in Nat \X Nat /\ ~ (<<y, x>>[1] < <<y, x>>[2])
    BY <1>1
  <2>2. QED
    BY <2>1
<1>3. QED
  BY <1>1, <1>2 DEF Min

\* The reasons a guard can give for not allowing a command.
Names == Sensors \cup {"command", "voltage"}
Refusals ==
  {<<"emergency_stop">>}
  \cup Names \X {"missing", "stale", "invalid", "low", "speed_limit_exceeded"}

\* None of them is that of an allowed one.
LEMMA RefusalsAreNotOk == <<"ok">> \notin Refusals
  BY DEF Refusals

\* An answer and its reason.
LEMMA QuestionIs ==
  ASSUME NEW p \in BOOLEAN, NEW why \in Refusals
  PROVE  <<p, why>> \in BOOLEAN \X Refusals /\ (<<p, why>>[1] <=> p)
  OBVIOUS

\* A check of the age of an input is one of the guard's questions.
LEMMA AgeIsAsked ==
  ASSUME NEW needed \in BOOLEAN, NEW name \in Names, NEW at, NEW timeout
  PROVE  /\ MissingOrStale(needed, name, at, timeout) \in BOOLEAN \X Refusals
         /\ MissingOrStale(needed, name, at, timeout)[1] <=> needed /\ ~ Fresh(at, timeout)
<1>1. <<name, IF at = None THEN "missing" ELSE "stale">> \in Refusals
  BY DEF Refusals
<1>2. (needed /\ ~ Fresh(at, timeout)) \in BOOLEAN
  OBVIOUS
<1>3. QED
  BY <1>1, <1>2, QuestionIs, Zenon DEF MissingOrStale

\* The three runs of questions of evaluate().
First(g) ==
  << <<g.emergency_stop, <<"emergency_stop">>>>,
     <<g.command_speed_limit_exceeded, <<"command", "speed_limit_exceeded">>>>,
     <<g.command_invalid, <<"command", "invalid">>>>,
     MissingOrStale(TRUE, "command", g.command_received_at, CommandTimeout) >>
OfSensors(g) ==
  [i \in DOMAIN Watched |->
     LET s == Watched[i]
     IN MissingOrStale(s \in Required, s, g.received_at[s], SensorTimeout[s])]
OfVoltage(g) ==
  << MissingOrStale(CheckVoltage, "voltage", g.voltage_received_at, VoltageTimeout),
     <<CheckVoltage /\ g.voltage = "NotFinite", <<"voltage", "invalid">>>>,
     <<CheckVoltage /\ g.voltage = "Low", <<"voltage", "low">>>> >>

\* Each of them asks for a refusal.
LEMMA QuestionsTyped ==
  ASSUME NEW g, g.emergency_stop \in BOOLEAN, g.command_speed_limit_exceeded \in BOOLEAN,
         g.command_invalid \in BOOLEAN
  PROVE  /\ First(g) \in Seq(BOOLEAN \X Refusals) /\ Len(First(g)) = 4
         /\ OfSensors(g) \in Seq(BOOLEAN \X Refusals) /\ Len(OfSensors(g)) = Len(Watched)
         /\ OfVoltage(g) \in Seq(BOOLEAN \X Refusals) /\ Len(OfVoltage(g)) = 3
<1>1. /\ MissingOrStale(TRUE, "command", g.command_received_at, CommandTimeout) \in BOOLEAN \X Refusals
      /\ MissingOrStale(CheckVoltage, "voltage", g.voltage_received_at, VoltageTimeout)
           \in BOOLEAN \X Refusals
  BY AgeIsAsked, ReferenceAssumption DEF Names
<1>2. /\ <<"emergency_stop">> \in Refusals /\ <<"command", "speed_limit_exceeded">> \in Refusals
      /\ <<"command", "invalid">> \in Refusals /\ <<"voltage", "invalid">> \in Refusals
      /\ <<"voltage", "low">> \in Refusals
  BY DEF Refusals, Names
<1>3. /\ First(g) \in Seq(BOOLEAN \X Refusals) /\ Len(First(g)) = 4
  <2>1. /\ <<g.emergency_stop, <<"emergency_stop">>>> \in BOOLEAN \X Refusals
        /\ <<g.command_speed_limit_exceeded, <<"command", "speed_limit_exceeded">>>>
             \in BOOLEAN \X Refusals
        /\ <<g.command_invalid, <<"command", "invalid">>>> \in BOOLEAN \X Refusals
    BY <1>2
  <2>2. ASSUME NEW a \in BOOLEAN \X Refusals, NEW b \in BOOLEAN \X Refusals,
               NEW c \in BOOLEAN \X Refusals, NEW d \in BOOLEAN \X Refusals
        PROVE  <<a, b, c, d>> \in Seq(BOOLEAN \X Refusals) /\ Len(<<a, b, c, d>>) = 4
    OBVIOUS
  <2>3. QED
    BY <1>1, <2>1, <2>2, Zenon DEF First
<1>4. /\ OfVoltage(g) \in Seq(BOOLEAN \X Refusals) /\ Len(OfVoltage(g)) = 3
  <2>1. /\ <<CheckVoltage /\ g.voltage = "NotFinite", <<"voltage", "invalid">>>>
             \in BOOLEAN \X Refusals
        /\ <<CheckVoltage /\ g.voltage = "Low", <<"voltage", "low">>>> \in BOOLEAN \X Refusals
    BY <1>2, QuestionIs, Zenon
  <2>2. ASSUME NEW a \in BOOLEAN \X Refusals, NEW b \in BOOLEAN \X Refusals,
               NEW c \in BOOLEAN \X Refusals
        PROVE  <<a, b, c>> \in Seq(BOOLEAN \X Refusals) /\ Len(<<a, b, c>>) = 3
    OBVIOUS
  <2>3. QED
    BY <1>1, <2>1, <2>2, Zenon DEF OfVoltage
<1>5. OfSensors(g) \in Seq(BOOLEAN \X Refusals) /\ Len(OfSensors(g)) = Len(Watched)
  <2>1. Len(Watched) \in Nat /\ DOMAIN Watched = 1 .. Len(Watched) /\ \A i \in DOMAIN Watched : Watched[i] \in Sensors
    BY WatchedAssumption, LenProperties, ElementOfSeq
  <2>2. ASSUME NEW i \in DOMAIN Watched PROVE OfSensors(g)[i] \in BOOLEAN \X Refusals
    <3>1. Watched[i] \in Names /\ (Watched[i] \in Required) \in BOOLEAN
      BY <2>1 DEF Names
    <3>2. QED
      BY <3>1, AgeIsAsked DEF OfSensors
  <2>3. QED
    BY <2>1, <2>2 DEF OfSensors
<1>6. QED
  BY <1>3, <1>4, <1>5

\* What the guard refuses, and why a command is allowed.
LEMMA AllowedIs ==
  ASSUME NEW g, g.emergency_stop \in BOOLEAN, g.command_speed_limit_exceeded \in BOOLEAN,
         g.command_invalid \in BOOLEAN
  PROVE  Allowed(g) <=> /\ \A i \in 1 .. 4 : ~ First(g)[i][1]
                        /\ \A i \in DOMAIN Watched : ~ OfSensors(g)[i][1]
                        /\ \A i \in 1 .. 3 : ~ OfVoltage(g)[i][1]
<1> DEFINE Q == BOOLEAN \X Refusals
           all == Checks(g)
           I == {i \in 1 .. Len(all) : all[i][1]}
<1>1. all = First(g) \o OfSensors(g) \o OfVoltage(g)
  BY DEF Checks, First, OfSensors, OfVoltage
<1>2. Len(Watched) \in Nat /\ DOMAIN Watched = 1 .. Len(Watched)
  BY WatchedAssumption, LenProperties
<1> DEFINE n == Len(Watched)
<1> HIDE DEF all, Q, n
<1>3. /\ First(g) \in Seq(Q) /\ OfSensors(g) \in Seq(Q) /\ OfVoltage(g) \in Seq(Q)
      /\ Len(First(g)) = 4 /\ Len(OfSensors(g)) = n /\ Len(OfVoltage(g)) = 3
  BY QuestionsTyped DEF Q, n
<1>4. /\ all \in Seq(Q) /\ Len(all) = n + 7
      /\ \A i \in 1 .. n + 7 : all[i] = IF i <= 4 THEN First(g)[i]
                                        ELSE IF i <= n + 4 THEN OfSensors(g)[i - 4]
                                        ELSE OfVoltage(g)[i - (n + 4)]
  <2>1. n \in Nat
    BY <1>2 DEF n
  <2>2. /\ First(g) \o OfSensors(g) \in Seq(Q) /\ Len(First(g) \o OfSensors(g)) = n + 4
        /\ \A i \in 1 .. n + 4 : (First(g) \o OfSensors(g))[i] =
             IF i <= 4 THEN First(g)[i] ELSE OfSensors(g)[i - 4]
    <3>1. /\ First(g) \o OfSensors(g) \in Seq(Q)
          /\ Len(First(g) \o OfSensors(g)) = Len(First(g)) + Len(OfSensors(g))
          /\ \A i \in 1 .. Len(First(g)) + Len(OfSensors(g)) : (First(g) \o OfSensors(g))[i] =
               IF i <= Len(First(g)) THEN First(g)[i] ELSE OfSensors(g)[i - Len(First(g))]
      BY <1>3, ConcatProperties, Zenon
    <3>2. QED
      BY <1>3, <2>1, <3>1
  <2> DEFINE before == First(g) \o OfSensors(g)
  <2> HIDE DEF before
  <2>3. all = before \o OfVoltage(g) /\ before \in Seq(Q) /\ Len(before) = n + 4
    BY <1>1, <2>2 DEF before
  <2>4. /\ before \o OfVoltage(g) \in Seq(Q)
        /\ Len(before \o OfVoltage(g)) = Len(before) + Len(OfVoltage(g))
        /\ \A i \in 1 .. Len(before) + Len(OfVoltage(g)) : (before \o OfVoltage(g))[i] =
             IF i <= Len(before) THEN before[i] ELSE OfVoltage(g)[i - Len(before)]
    BY <1>3, <2>3, ConcatProperties, Zenon
  <2>5. \A i \in 1 .. n + 4 : before[i] = IF i <= 4 THEN First(g)[i] ELSE OfSensors(g)[i - 4]
    BY <2>2 DEF before
  <2>6. /\ all \in Seq(Q) /\ Len(all) = (n + 4) + 3
        /\ \A i \in 1 .. (n + 4) + 3 :
             all[i] = IF i <= n + 4 THEN before[i] ELSE OfVoltage(g)[i - (n + 4)]
    <3> HIDE DEF before
    <3>1. Len(OfVoltage(g)) = 3
      BY <1>3
    <3>2. QED
      BY <2>3, <2>4, <3>1
  <2>7. ASSUME NEW i \in 1 .. n + 7
        PROVE  all[i] = IF i <= 4 THEN First(g)[i] ELSE IF i <= n + 4 THEN OfSensors(g)[i - 4]
                        ELSE OfVoltage(g)[i - (n + 4)]
    <3>1. i \in 1 .. (n + 4) + 3 /\ (i <= n + 4 => i \in 1 .. n + 4) /\ (i <= 4 => i <= n + 4)
      BY <2>1
    <3>2. QED
      BY <2>5, <2>6, <3>1
  <2>8. (n + 4) + 3 = n + 7
    BY <2>1
  <2>9. QED
    BY <2>6, <2>7, <2>8
<1>5. Allowed(g) <=> I = {}
  <2>0. I \in SUBSET Nat /\ (I # {} => Min(I) \in I)
    <3>1. I \in SUBSET Nat
      BY <1>4
    <3> HIDE DEF I
    <3>2. QED
      BY <3>1, MinIsLeast
  <2>1. Evaluate(g) = IF I = {} THEN <<"ok">> ELSE all[Min(I)][2]
    <3>1. I = {} => SelectInSeq(all, LAMBDA check : check[1]) = 0
      BY DEF SelectInSeq
    <3>2. I # {} => SelectInSeq(all, LAMBDA check : check[1]) = Min(I) /\ Min(I) \in I
      BY <2>0 DEF SelectInSeq
    <3>3. QED
      BY <3>1, <3>2 DEF Evaluate, all
  <2>2. ASSUME I # {} PROVE all[Min(I)][2] # <<"ok">>
    <3>1. Min(I) \in 1 .. Len(all)
      BY <2>0, <2>2
    <3>2. all[Min(I)] \in Q
      BY <1>4, <3>1, ElementOfSeq
    <3>3. QED
      BY <3>2, RefusalsAreNotOk DEF Q
  <2>3. QED
    BY <2>1, <2>2 DEF Allowed
<1>6. I = {} <=> \A i \in 1 .. n + 7 : ~ all[i][1]
  BY <1>4
<1>7. (\A i \in 1 .. n + 7 : ~ all[i][1]) <=>
        /\ \A i \in 1 .. 4 : ~ First(g)[i][1]
        /\ \A i \in 1 .. n : ~ OfSensors(g)[i][1]
        /\ \A i \in 1 .. 3 : ~ OfVoltage(g)[i][1]
  <2>1. n \in Nat
    BY <1>2 DEF n
  <2>2. ASSUME NEW i \in 1 .. 4 PROVE all[i] = First(g)[i] /\ i \in 1 .. n + 7
    BY <1>4, <2>1
  <2>3. ASSUME NEW i \in 1 .. n PROVE all[i + 4] = OfSensors(g)[i] /\ i + 4 \in 1 .. n + 7
    BY <1>4, <2>1
  <2>4. ASSUME NEW i \in 1 .. 3 PROVE all[i + (n + 4)] = OfVoltage(g)[i] /\ i + (n + 4) \in 1 .. n + 7
    BY <1>4, <2>1
  <2>5. ASSUME NEW i \in 1 .. n + 7
        PROVE  \/ i \in 1 .. 4 /\ all[i] = First(g)[i]
               \/ i - 4 \in 1 .. n /\ all[i] = OfSensors(g)[i - 4]
               \/ i - (n + 4) \in 1 .. 3 /\ all[i] = OfVoltage(g)[i - (n + 4)]
    BY <1>4, <2>1
  <2>6. QED
    BY <2>2, <2>3, <2>4, <2>5
<1>8. QED
  BY <1>2, <1>5, <1>6, <1>7 DEF n

-----------------------------------------------------------------------------
(* The Python node implements the C++ node. *)

\* An age the invariant speaks of is within its limit for both of them or for neither.
LEMMA SameAge ==
  ASSUME now \in Nat, NEW at \in Times, IsPast(at), NEW timeout \in Nat
  PROVE  Fresh(at, timeout) <=> Cpp!Fresh(at, timeout)
BY DEF Fresh, Cpp!Fresh, IsPast, Times

\* The seven questions beside those of the sensors.
LEMMA SevenQuestions ==
  ASSUME GuardTyped
  PROVE  /\ (\A i \in 1 .. 4 : ~ First(guard)[i][1]) <=>
              /\ ~ guard.emergency_stop /\ ~ guard.command_speed_limit_exceeded
              /\ ~ guard.command_invalid /\ Fresh(guard.command_received_at, CommandTimeout)
         /\ (\A i \in 1 .. 3 : ~ OfVoltage(guard)[i][1]) <=>
              /\ ~ (CheckVoltage /\ ~ Fresh(guard.voltage_received_at, VoltageTimeout))
              /\ ~ (CheckVoltage /\ guard.voltage = "NotFinite")
              /\ ~ (CheckVoltage /\ guard.voltage = "Low")
<1>1. /\ guard.emergency_stop \in BOOLEAN /\ guard.command_speed_limit_exceeded \in BOOLEAN
      /\ guard.command_invalid \in BOOLEAN
  BY DEF GuardTyped
<1>2. /\ <<"emergency_stop">> \in Refusals /\ <<"command", "speed_limit_exceeded">> \in Refusals
      /\ <<"command", "invalid">> \in Refusals /\ <<"voltage", "invalid">> \in Refusals
      /\ <<"voltage", "low">> \in Refusals
  BY DEF Refusals, Names
<1>3. /\ MissingOrStale(TRUE, "command", guard.command_received_at, CommandTimeout)[1]
           <=> ~ Fresh(guard.command_received_at, CommandTimeout)
      /\ MissingOrStale(CheckVoltage, "voltage", guard.voltage_received_at, VoltageTimeout)[1]
           <=> CheckVoltage /\ ~ Fresh(guard.voltage_received_at, VoltageTimeout)
  BY AgeIsAsked, ReferenceAssumption DEF Names
<1>4. ASSUME NEW a, NEW b, NEW c, NEW d
      PROVE  (\A i \in 1 .. 4 : ~ <<a, b, c, d>>[i][1]) <=> ~ a[1] /\ ~ b[1] /\ ~ c[1] /\ ~ d[1]
  <2>1. ASSUME NEW i \in 1 .. 4 PROVE i = 1 \/ i = 2 \/ i = 3 \/ i = 4
    OBVIOUS
  <2>2. 1 \in 1 .. 4 /\ 2 \in 1 .. 4 /\ 3 \in 1 .. 4 /\ 4 \in 1 .. 4
    OBVIOUS
  <2>3. /\ <<a, b, c, d>>[1] = a /\ <<a, b, c, d>>[2] = b /\ <<a, b, c, d>>[3] = c
        /\ <<a, b, c, d>>[4] = d
    OBVIOUS
  <2>4. QED
    BY <2>1, <2>2, <2>3, Zenon
<1>5. ASSUME NEW a, NEW b, NEW c
      PROVE  (\A i \in 1 .. 3 : ~ <<a, b, c>>[i][1]) <=> ~ a[1] /\ ~ b[1] /\ ~ c[1]
  <2>1. ASSUME NEW i \in 1 .. 3 PROVE i = 1 \/ i = 2 \/ i = 3
    OBVIOUS
  <2>2. 1 \in 1 .. 3 /\ 2 \in 1 .. 3 /\ 3 \in 1 .. 3
    OBVIOUS
  <2>3. <<a, b, c>>[1] = a /\ <<a, b, c>>[2] = b /\ <<a, b, c>>[3] = c
    OBVIOUS
  <2>4. QED
    BY <2>1, <2>2, <2>3, Zenon
<1>6. /\ <<guard.emergency_stop, <<"emergency_stop">>>>[1] <=> guard.emergency_stop
      /\ <<guard.command_speed_limit_exceeded, <<"command", "speed_limit_exceeded">>>>[1]
           <=> guard.command_speed_limit_exceeded
      /\ <<guard.command_invalid, <<"command", "invalid">>>>[1] <=> guard.command_invalid
  BY <1>1, <1>2, QuestionIs, Zenon
<1>7. /\ <<CheckVoltage /\ guard.voltage = "NotFinite", <<"voltage", "invalid">>>>[1]
           <=> CheckVoltage /\ guard.voltage = "NotFinite"
      /\ <<CheckVoltage /\ guard.voltage = "Low", <<"voltage", "low">>>>[1]
           <=> CheckVoltage /\ guard.voltage = "Low"
  <2>1. /\ (CheckVoltage /\ guard.voltage = "NotFinite") \in BOOLEAN
        /\ (CheckVoltage /\ guard.voltage = "Low") \in BOOLEAN
    OBVIOUS
  <2>2. QED
    BY <1>2, <2>1, QuestionIs, Zenon
<1>8. (\A i \in 1 .. 4 : ~ First(guard)[i][1]) <=>
        /\ ~ guard.emergency_stop /\ ~ guard.command_speed_limit_exceeded
        /\ ~ guard.command_invalid /\ Fresh(guard.command_received_at, CommandTimeout)
  <2> DEFINE a == <<guard.emergency_stop, <<"emergency_stop">>>>
             b == <<guard.command_speed_limit_exceeded, <<"command", "speed_limit_exceeded">>>>
             c == <<guard.command_invalid, <<"command", "invalid">>>>
             d == MissingOrStale(TRUE, "command", guard.command_received_at, CommandTimeout)
  <2>1. First(guard) = <<a, b, c, d>>
    BY DEF First
  <2>2. /\ a[1] <=> guard.emergency_stop
        /\ b[1] <=> guard.command_speed_limit_exceeded
        /\ c[1] <=> guard.command_invalid
        /\ d[1] <=> ~ Fresh(guard.command_received_at, CommandTimeout)
    BY <1>3, <1>6, Zenon
  <2> HIDE DEF a, b, c, d
  <2>3. (\A i \in 1 .. 4 : ~ <<a, b, c, d>>[i][1]) <=> ~ a[1] /\ ~ b[1] /\ ~ c[1] /\ ~ d[1]
    BY <1>4, Zenon
  <2>4. QED
    BY <2>1, <2>2, <2>3, Zenon
<1>9. (\A i \in 1 .. 3 : ~ OfVoltage(guard)[i][1]) <=>
        /\ ~ (CheckVoltage /\ ~ Fresh(guard.voltage_received_at, VoltageTimeout))
        /\ ~ (CheckVoltage /\ guard.voltage = "NotFinite")
        /\ ~ (CheckVoltage /\ guard.voltage = "Low")
  <2> DEFINE a == MissingOrStale(CheckVoltage, "voltage", guard.voltage_received_at, VoltageTimeout)
             b == <<CheckVoltage /\ guard.voltage = "NotFinite", <<"voltage", "invalid">>>>
             c == <<CheckVoltage /\ guard.voltage = "Low", <<"voltage", "low">>>>
  <2>1. OfVoltage(guard) = <<a, b, c>>
    BY Zenon DEF OfVoltage
  <2>2. /\ a[1] <=> CheckVoltage /\ ~ Fresh(guard.voltage_received_at, VoltageTimeout)
        /\ b[1] <=> CheckVoltage /\ guard.voltage = "NotFinite"
        /\ c[1] <=> CheckVoltage /\ guard.voltage = "Low"
    BY <1>3, <1>7, Zenon
  <2> HIDE DEF a, b, c
  <2>3. (\A i \in 1 .. 3 : ~ <<a, b, c>>[i][1]) <=> ~ a[1] /\ ~ b[1] /\ ~ c[1]
    BY <1>5, Zenon
  <2>4. QED
    BY <2>1, <2>2, <2>3, Zenon
<1>10. QED
  BY <1>8, <1>9

\* The two nodes allow a command under the same circumstances.
LEMMA SameVerdict ==
  ASSUME ReferenceInvariant
  PROVE  Allowed(guard) <=> Cpp!Allowed
<1>1. /\ guard.emergency_stop \in BOOLEAN /\ guard.command_speed_limit_exceeded \in BOOLEAN
      /\ guard.command_invalid \in BOOLEAN /\ now \in Nat
      /\ guard.command_received_at \in Times /\ IsPast(guard.command_received_at)
      /\ guard.voltage_received_at \in Times /\ IsPast(guard.voltage_received_at)
      /\ guard.voltage \in {"Good", "Low", "NotFinite", None}
      /\ \A s \in Sensors : guard.received_at[s] \in Times /\ IsPast(guard.received_at[s])
      /\ guard.voltage = None <=> guard.voltage_received_at = None
  BY DEF ReferenceInvariant, GuardTyped, NodeFollowsGuard
<1>2. (\A i \in DOMAIN Watched : ~ OfSensors(guard)[i][1]) <=>
        \A s \in Required : Cpp!Fresh(guard.received_at[s], SensorTimeout[s])
  <2>1. /\ \A i \in DOMAIN Watched : Watched[i] \in Sensors
        /\ \A s \in Sensors : \E i \in DOMAIN Watched : Watched[i] = s
    BY WatchedAssumption, ElementOfSeq DEF ToSet
  <2>2. ASSUME NEW s \in Sensors
        PROVE  Fresh(guard.received_at[s], SensorTimeout[s])
                 <=> Cpp!Fresh(guard.received_at[s], SensorTimeout[s])
    BY <1>1, SameAge, ReferenceAssumption
  <2>3. ASSUME NEW i \in DOMAIN Watched
        PROVE  OfSensors(guard)[i][1] <=>
                 /\ Watched[i] \in Required
                 /\ ~ Fresh(guard.received_at[Watched[i]], SensorTimeout[Watched[i]])
    <3>1. Watched[i] \in Names /\ (Watched[i] \in Required) \in BOOLEAN
      BY <2>1 DEF Names
    <3>2. OfSensors(guard)[i] = MissingOrStale(Watched[i] \in Required, Watched[i],
                                  guard.received_at[Watched[i]], SensorTimeout[Watched[i]])
      BY DEF OfSensors
    <3> DEFINE asked == MissingOrStale(Watched[i] \in Required, Watched[i],
                          guard.received_at[Watched[i]], SensorTimeout[Watched[i]])
    <3>3. asked[1] <=> /\ Watched[i] \in Required
                       /\ ~ Fresh(guard.received_at[Watched[i]], SensorTimeout[Watched[i]])
      BY <3>1, AgeIsAsked, Zenon
    <3>4. OfSensors(guard)[i] = asked
      BY <3>2
    <3> HIDE DEF asked
    <3>5. QED
      BY <3>3, <3>4, Zenon
  <2>4. QED
    BY <2>1, <2>2, <2>3, ReferenceAssumption, Zenon
<1>3. Fresh(guard.command_received_at, CommandTimeout)
        <=> Cpp!Fresh(guard.command_received_at, CommandTimeout)
  BY <1>1, SameAge, ReferenceAssumption
<1>4. Fresh(guard.voltage_received_at, VoltageTimeout)
        <=> Cpp!Fresh(guard.voltage_received_at, VoltageTimeout)
  BY <1>1, SameAge, ReferenceAssumption
<1>5. Fresh(guard.voltage_received_at, VoltageTimeout) => guard.voltage # None
  BY <1>1 DEF Fresh
<1>6. GuardTyped
  BY DEF ReferenceInvariant
<1>7. QED
  BY <1>1, <1>2, <1>3, <1>4, <1>5, <1>6, AllowedIs, SevenQuestions, ReferenceAssumption
     DEF Cpp!Allowed

\* The invariant holds at the start.
LEMMA ReferenceStarts == ReferenceInit => ReferenceInvariant
<1> SUFFICES ASSUME ReferenceInit PROVE ReferenceInvariant
  OBVIOUS
<1> USE ReferenceAssumption
<1>1. GuardTyped
  BY DEF ReferenceInit, GuardInit, GuardTyped, Times, IsPast
<1>2. NodeTyped
  BY DEF ReferenceInit, NodeTyped, Times
<1>3. NodeFollowsGuard
  BY DEF ReferenceInit, GuardInit, NodeFollowsGuard
<1>4. QED
  BY <1>1, <1>2, <1>3 DEF ReferenceInvariant

\* The status a callback reports at its end changes nothing else.
LEMMA ReportedKeeps ==
  ASSUME NEW n, NEW g, NEW stamps,
         n \in [last_command: Commands \cup {None}, steering_calibration: Times,
                processed_at: stamps, last_status_reason: {n.last_status_reason}]
  PROVE  /\ Reported(n, g).last_command = n.last_command
         /\ Reported(n, g).steering_calibration = n.steering_calibration
         /\ Reported(n, g).processed_at = n.processed_at
         /\ Reported(n, g) \in [last_command: Commands \cup {None}, steering_calibration: Times,
              processed_at: stamps, last_status_reason: {Reported(n, g).last_status_reason}]
BY DEF Reported

\* A command is accepted by both nodes or by neither.
LEMMA CommandImplements ==
  ASSUME ReferenceInvariant, NEW c \in Commands, OnCommand(c)
  PROVE  ReferenceInvariant' /\ Cpp!OnCommand(c)
<1> DEFINE marked == IF Sanitizes(c) THEN MarkCommand(c)
                     ELSE [accepted |-> FALSE, guard |-> MarkCommandInvalid]
           kept == IF Quiescent(c) THEN node.steering_calibration ELSE None
           remembered == IF marked.accepted
             THEN [node EXCEPT !.last_command = c, !.steering_calibration = kept]
             ELSE [node EXCEPT !.last_command = None, !.steering_calibration = None]
<1>1. /\ guard' = marked.guard /\ node' = Reported(remembered, marked.guard)
      /\ out' = IF marked.accepted THEN None ELSE Zero
      /\ seen' = [seen EXCEPT !.arrived = c, !.arrived_at = now, !.tripped = @ \/ c = "OverLimit"]
      /\ now' = now
  BY DEF OnCommand
<1>2. GuardTyped /\ NodeTyped /\ NodeFollowsGuard
  BY DEF ReferenceInvariant
<1>3. \/ /\ c = "NotFinite" /\ marked.accepted = FALSE
         /\ marked.guard = [guard EXCEPT !.command_invalid = TRUE]
      \/ /\ c # "NotFinite" /\ guard.command_speed_limit_exceeded /\ marked.accepted = FALSE
         /\ marked.guard = guard
      \/ /\ c = "OverLimit" /\ ~ guard.command_speed_limit_exceeded /\ marked.accepted = FALSE
         /\ marked.guard = [guard EXCEPT !.command_invalid = FALSE,
                              !.command_speed_limit_exceeded = TRUE]
      \/ /\ c \in {"Zero", "Drive"} /\ ~ guard.command_speed_limit_exceeded /\ marked.accepted = TRUE
         /\ marked.guard = [guard EXCEPT !.command_received_at = now, !.command_invalid = FALSE]
  BY <1>2 DEF GuardTyped, Sanitizes, MarkCommand, MarkCommandInvalid, Commands
<1> HIDE DEF marked
<1>4. /\ remembered \in [last_command: Commands \cup {None}, steering_calibration: Times,
           processed_at: [Throttled -> Times], last_status_reason: {remembered.last_status_reason}]
      /\ remembered.processed_at = node.processed_at
      /\ marked.accepted => remembered.last_command = c /\ remembered.steering_calibration = kept
      /\ ~ marked.accepted => remembered.last_command = None /\ remembered.steering_calibration = None
  BY <1>2, <1>3, ReferenceAssumption DEF NodeTyped, Times
<1> HIDE DEF remembered
<1>5. /\ node'.last_command = remembered.last_command
      /\ node'.steering_calibration = remembered.steering_calibration
      /\ node'.processed_at = node.processed_at
      /\ node' \in [last_command: Commands \cup {None}, steering_calibration: Times,
           processed_at: [Throttled -> Times], last_status_reason: {node'.last_status_reason}]
  BY <1>1, <1>4, ReportedKeeps
<1>6. GuardTyped' /\ guard'.received_at = guard.received_at /\ guard'.voltage = guard.voltage
      /\ guard'.voltage_received_at = guard.voltage_received_at
      /\ guard'.emergency_stop = guard.emergency_stop
  <2>1. now \in Nat /\ now \in Times
    BY <1>2 DEF GuardTyped, Times
  <2>2. CASE c = "NotFinite" /\ guard' = [guard EXCEPT !.command_invalid = TRUE]
    BY <1>1, <1>2, <2>2 DEF GuardTyped, IsPast
  <2>3. CASE guard' = guard
    BY <1>1, <1>2, <2>3 DEF GuardTyped, IsPast
  <2>4. CASE guard' = [guard EXCEPT !.command_invalid = FALSE, !.command_speed_limit_exceeded = TRUE]
    BY <1>1, <1>2, <2>4 DEF GuardTyped, IsPast
  <2>5. CASE guard' = [guard EXCEPT !.command_received_at = now, !.command_invalid = FALSE]
    <3>1. /\ guard' \in [command_received_at: Times, command_invalid: BOOLEAN,
               command_speed_limit_exceeded: BOOLEAN, received_at: [Sensors -> Times],
               voltage: {"Good", "Low", "NotFinite", None}, voltage_received_at: Times,
               emergency_stop: BOOLEAN]
          /\ guard'.command_received_at = now
          /\ guard'.received_at = guard.received_at /\ guard'.voltage = guard.voltage
          /\ guard'.voltage_received_at = guard.voltage_received_at
          /\ guard'.emergency_stop = guard.emergency_stop
      BY <1>2, <2>1, <2>5 DEF GuardTyped
    <3>2. QED
      BY <1>1, <1>2, <2>1, <3>1 DEF GuardTyped, IsPast
  <2>6. QED
    BY <1>1, <1>3, <2>2, <2>3, <2>4, <2>5
<1>7. NodeTyped'
  BY <1>1, <1>2, <1>5 DEF NodeTyped, GuardTyped, Times
<1>8. NodeFollowsGuard'
  BY <1>1, <1>2, <1>5, <1>6 DEF NodeFollowsGuard
<1>9. Cpp!AcceptCommand(c) \/ Cpp!RejectCommand(c)
  <2>1. CASE c \in {"Zero", "Drive"} /\ ~ guard.command_speed_limit_exceeded
    <3>1. /\ marked.accepted
          /\ marked.guard = [guard EXCEPT !.command_received_at = now, !.command_invalid = FALSE]
      BY <1>3, <2>1
    <3>2. /\ guard'.command_received_at = now /\ guard'.command_invalid = FALSE
          /\ guard'.command_speed_limit_exceeded = guard.command_speed_limit_exceeded
      BY <1>1, <1>2, <3>1 DEF GuardTyped
    <3>3. Cpp!AcceptCommand(c)
      BY <1>1, <1>4, <1>5, <2>1, <3>1, <3>2
         DEF Cpp!AcceptCommand, Cpp!Accepted, Cpp!Quiescent, Quiescent
    <3>4. QED
      BY <3>3
  <2>2. CASE ~ (c \in {"Zero", "Drive"} /\ ~ guard.command_speed_limit_exceeded)
    <3>1. ~ marked.accepted
      BY <1>3, <2>2
    <3>2. /\ guard'.command_received_at = guard.command_received_at
          /\ \/ c = "NotFinite" /\ guard'.command_invalid = TRUE
                /\ guard'.command_speed_limit_exceeded = guard.command_speed_limit_exceeded
             \/ c # "NotFinite" /\ guard.command_speed_limit_exceeded
                /\ guard'.command_invalid = guard.command_invalid
                /\ guard'.command_speed_limit_exceeded = guard.command_speed_limit_exceeded
             \/ c = "OverLimit" /\ ~ guard.command_speed_limit_exceeded
                /\ guard'.command_invalid = FALSE /\ guard'.command_speed_limit_exceeded = TRUE
      BY <1>1, <1>2, <1>3, <2>2 DEF GuardTyped
    <3>3. Cpp!RejectCommand(c)
      BY <1>1, <1>4, <1>5, <2>2, <3>1, <3>2
         DEF Cpp!RejectCommand, Cpp!Accepted, Cpp!ZeroOut, Zero
    <3>4. QED
      BY <3>3
  <2>3. QED
    BY <2>1, <2>2
<1>10. /\ seen'.arrived = c /\ seen'.arrived_at = now /\ seen'.heard_at = seen.heard_at
       /\ seen'.tripped = IF c = "OverLimit" THEN TRUE ELSE seen.tripped
  BY <1>1, <1>2 DEF NodeTyped
<1>11. Cpp!OnCommand(c)
  BY <1>1, <1>6, <1>9, <1>10 DEF Cpp!OnCommand, Cpp!sensorVars
<1>12. QED
  BY <1>6, <1>7, <1>8, <1>11 DEF ReferenceInvariant

\* A sample is counted by both or dropped by both.
LEMMA SensorImplements ==
  ASSUME ReferenceInvariant, NEW s \in Sensors, OnSensor(s)
  PROVE  ReferenceInvariant' /\ Cpp!OnSensor(s)
<1> USE ReferenceAssumption
<1>1. GuardTyped /\ NodeTyped /\ NodeFollowsGuard /\ now' = now
  BY DEF ReferenceInvariant, OnSensor
<1>2. TooSoon(s) <=> /\ s \in Throttled /\ guard.received_at[s] # None
                     /\ now - guard.received_at[s] < ThrottleInterval
  BY <1>1 DEF TooSoon, NodeFollowsGuard
<1>3. /\ seen' = [seen EXCEPT !.heard_at[s] = now] /\ out' = None
      /\ TooSoon(s) => guard' = guard /\ node' = node
      /\ ~ TooSoon(s) => /\ guard' = [guard EXCEPT !.received_at[s] = now]
                         /\ node' = [node EXCEPT !.processed_at =
                              [t \in Throttled |-> IF t = s THEN now ELSE @[t]]]
  BY DEF OnSensor
<1>4. /\ GuardTyped'
      /\ guard'.received_at = IF TooSoon(s) THEN guard.received_at
                              ELSE [guard.received_at EXCEPT ![s] = now]
      /\ guard'.command_received_at = guard.command_received_at
      /\ guard'.command_invalid = guard.command_invalid
      /\ guard'.command_speed_limit_exceeded = guard.command_speed_limit_exceeded
      /\ guard'.emergency_stop = guard.emergency_stop /\ guard'.voltage = guard.voltage
      /\ guard'.voltage_received_at = guard.voltage_received_at
  <2>1. CASE TooSoon(s)
    BY <1>1, <1>3, <2>1 DEF GuardTyped, IsPast
  <2>2. CASE ~ TooSoon(s)
    BY <1>1, <1>3, <2>2 DEF GuardTyped, Times, IsPast
  <2>3. QED
    BY <2>1, <2>2
<1>5. /\ NodeTyped' /\ node'.last_command = node.last_command
      /\ node'.steering_calibration = node.steering_calibration
      /\ node'.processed_at = IF TooSoon(s) THEN node.processed_at
                              ELSE [t \in Throttled |-> IF t = s THEN now ELSE node.processed_at[t]]
      /\ seen'.heard_at = [seen.heard_at EXCEPT ![s] = now] /\ seen'.arrived = seen.arrived
      /\ seen'.arrived_at = seen.arrived_at /\ seen'.tripped = seen.tripped
  <2>1. CASE TooSoon(s)
    BY <1>1, <1>3, <2>1 DEF NodeTyped, Times, GuardTyped
  <2>2. CASE ~ TooSoon(s)
    BY <1>1, <1>3, <2>2 DEF NodeTyped, Times, GuardTyped
  <2>3. QED
    BY <2>1, <2>2
<1>6. NodeFollowsGuard'
  BY <1>1, <1>4, <1>5 DEF NodeFollowsGuard, GuardTyped
<1>7. Cpp!OnSensor(s)
  BY <1>1, <1>2, <1>3, <1>4, <1>5 DEF Cpp!OnSensor, Cpp!commandVars
<1>8. QED
  BY <1>4, <1>5, <1>6, <1>7 DEF ReferenceInvariant

\* A voltage is noted by both.
LEMMA VoltageImplements ==
  ASSUME ReferenceInvariant, NEW v \in {"Good", "Low", "NotFinite"}, OnVoltage(v)
  PROVE  ReferenceInvariant' /\ Cpp!OnVoltage(v)
<1> USE ReferenceAssumption
<1> DEFINE marked == [guard EXCEPT !.voltage = v, !.voltage_received_at = now]
<1>1. /\ GuardTyped /\ NodeTyped /\ NodeFollowsGuard /\ now' = now /\ seen' = seen
      /\ guard' = marked /\ node' = Reported(node, marked) /\ out' = None
  BY DEF ReferenceInvariant, OnVoltage
<1>2. /\ GuardTyped'
      /\ guard'.received_at = guard.received_at
      /\ guard'.command_received_at = guard.command_received_at
      /\ guard'.command_invalid = guard.command_invalid
      /\ guard'.command_speed_limit_exceeded = guard.command_speed_limit_exceeded
      /\ guard'.emergency_stop = guard.emergency_stop /\ guard'.voltage = v
      /\ guard'.voltage_received_at = now
  <2>1. now \in Nat /\ now \in Times
    BY <1>1 DEF GuardTyped, Times
  <2>2. /\ guard' \in [command_received_at: Times, command_invalid: BOOLEAN,
             command_speed_limit_exceeded: BOOLEAN, received_at: [Sensors -> Times],
             voltage: {"Good", "Low", "NotFinite", None}, voltage_received_at: Times,
             emergency_stop: BOOLEAN]
        /\ guard'.received_at = guard.received_at
        /\ guard'.command_received_at = guard.command_received_at
        /\ guard'.command_invalid = guard.command_invalid
        /\ guard'.command_speed_limit_exceeded = guard.command_speed_limit_exceeded
        /\ guard'.emergency_stop = guard.emergency_stop /\ guard'.voltage = v
        /\ guard'.voltage_received_at = now
    BY <1>1, <2>1 DEF GuardTyped
  <2>3. QED
    BY <1>1, <2>1, <2>2 DEF GuardTyped, IsPast
<1>3. /\ NodeTyped' /\ node'.last_command = node.last_command
      /\ node'.steering_calibration = node.steering_calibration
      /\ node'.processed_at = node.processed_at
  BY <1>1, ReportedKeeps DEF NodeTyped
<1>4. NodeFollowsGuard'
  BY <1>1, <1>2, <1>3 DEF NodeFollowsGuard, GuardTyped
<1>5. Cpp!OnVoltage(v)
  BY <1>1, <1>2, <1>3 DEF Cpp!OnVoltage, Cpp!commandVars, Cpp!worldVars
<1>6. QED
  BY <1>2, <1>3, <1>4, <1>5 DEF ReferenceInvariant

\* The emergency stop ends a hold in both, and its release the over-limit latch.
LEMMA EmergencyStopImplements ==
  ASSUME ReferenceInvariant, NEW engage \in BOOLEAN, OnEmergencyStop(engage)
  PROVE  ReferenceInvariant' /\ Cpp!OnEmergencyStop(engage)
<1> USE ReferenceAssumption
<1> DEFINE set == [guard EXCEPT !.emergency_stop = engage,
                     !.command_speed_limit_exceeded = @ /\ engage]
           held == IF engage THEN [node EXCEPT !.steering_calibration = None] ELSE node
<1>1. /\ GuardTyped /\ NodeTyped /\ NodeFollowsGuard /\ now' = now
      /\ seen' = [seen EXCEPT !.tripped = @ /\ engage]
      /\ guard' = set /\ node' = Reported(held, set) /\ out' = None
  BY DEF ReferenceInvariant, OnEmergencyStop
<1>2. /\ GuardTyped'
      /\ guard'.received_at = guard.received_at
      /\ guard'.command_received_at = guard.command_received_at
      /\ guard'.command_invalid = guard.command_invalid
      /\ guard'.command_speed_limit_exceeded = (guard.command_speed_limit_exceeded /\ engage)
      /\ guard'.emergency_stop = engage /\ guard'.voltage = guard.voltage
      /\ guard'.voltage_received_at = guard.voltage_received_at
  BY <1>1 DEF GuardTyped, IsPast
<1> HIDE DEF set
<1>3. /\ held \in [last_command: Commands \cup {None}, steering_calibration: Times,
           processed_at: [Throttled -> Times], last_status_reason: {held.last_status_reason}]
      /\ held.last_command = node.last_command /\ held.processed_at = node.processed_at
      /\ held.steering_calibration = IF engage THEN None ELSE node.steering_calibration
  BY <1>1 DEF NodeTyped, Times
<1> HIDE DEF held
<1>4. /\ NodeTyped' /\ node'.last_command = node.last_command
      /\ node'.steering_calibration = IF engage THEN None ELSE node.steering_calibration
      /\ node'.processed_at = node.processed_at
      /\ seen'.heard_at = seen.heard_at /\ seen'.arrived = seen.arrived
      /\ seen'.arrived_at = seen.arrived_at /\ seen'.tripped = (seen.tripped /\ engage)
  BY <1>1, <1>3, ReportedKeeps DEF NodeTyped
<1>5. NodeFollowsGuard'
  BY <1>1, <1>2, <1>4 DEF NodeFollowsGuard
<1>6. Cpp!OnEmergencyStop(engage)
  BY <1>1, <1>2, <1>4 DEF Cpp!OnEmergencyStop, Cpp!sensorVars, GuardTyped, NodeTyped
<1>7. QED
  BY <1>2, <1>4, <1>5, <1>6 DEF ReferenceInvariant

\* A hold is granted by both or by neither.
LEMMA HoldImplements ==
  ASSUME ReferenceInvariant, NEW duration \in 0 .. MaxHold + 1, OnSteeringCalibrationHold(duration)
  PROVE  ReferenceInvariant' /\ Cpp!OnSteeringCalibrationHold(duration)
<1> USE ReferenceAssumption
<1>1. /\ GuardTyped /\ NodeTyped /\ NodeFollowsGuard /\ now' = now /\ guard' = guard
      /\ seen' = seen /\ out' = None /\ now \in Nat
  BY DEF ReferenceInvariant, OnSteeringCalibrationHold, GuardTyped
<1> DEFINE given == /\ AllowSteeringCalibration /\ duration <= MaxHold
                    /\ Allowed(guard) /\ CommandQuiescent
           hold == IF duration = 0 THEN None ELSE IF given THEN now + duration
                   ELSE node.steering_calibration
<1>2. node' = [node EXCEPT !.steering_calibration = hold] /\ hold \in Times
  BY <1>1 DEF OnSteeringCalibrationHold, NodeTyped, Times
<1>3. /\ NodeTyped' /\ node'.last_command = node.last_command
      /\ node'.steering_calibration = hold
      /\ node'.processed_at = node.processed_at
  BY <1>1, <1>2 DEF NodeTyped
<1>4. GuardTyped' /\ NodeFollowsGuard'
  BY <1>1, <1>3 DEF GuardTyped, NodeFollowsGuard, IsPast
<1>5. Allowed(guard) <=> Cpp!Allowed
  BY SameVerdict
<1>6. CommandQuiescent <=> Cpp!LastCommandQuiescent
  BY DEF CommandQuiescent, Quiescent, Cpp!LastCommandQuiescent, Cpp!Quiescent
<1>7. Cpp!OnSteeringCalibrationHold(duration)
  <2>1. \/ duration = 0 /\ node'.steering_calibration = None
        \/ /\ duration \in 1 .. MaxHold /\ AllowSteeringCalibration
           /\ Cpp!Allowed /\ Cpp!LastCommandQuiescent
           /\ node'.steering_calibration = now + duration
        \/ /\ duration # 0
           /\ \/ ~AllowSteeringCalibration \/ duration > MaxHold
              \/ ~(Cpp!Allowed /\ Cpp!LastCommandQuiescent)
           /\ node'.steering_calibration = node.steering_calibration
    <3> HIDE DEF Cpp!Allowed, Cpp!LastCommandQuiescent
    <3>1. QED
      BY <1>3, <1>5, <1>6
  <2>2. QED
    BY <1>1, <1>3, <2>1 DEF Cpp!OnSteeringCalibrationHold, Cpp!commandVars, Cpp!sensorVars, Cpp!worldVars
<1>8. QED
  BY <1>3, <1>4, <1>7 DEF ReferenceInvariant

\* Both repeat the same command, with the same hold, or stop.
LEMMA TimerImplements ==
  ASSUME ReferenceInvariant, OnTimer
  PROVE  ReferenceInvariant' /\ Cpp!OnTimer
<1> USE ReferenceAssumption
<1> DEFINE holding == /\ node.steering_calibration # None
                      /\ Allowed(guard) /\ CommandQuiescent /\ now < node.steering_calibration
           kept == IF holding THEN node.steering_calibration ELSE None
           left == [node EXCEPT !.steering_calibration = kept]
<1>1. /\ GuardTyped /\ NodeTyped /\ NodeFollowsGuard /\ now' = now /\ guard' = guard
      /\ seen' = seen /\ node' = Reported(left, guard)
      /\ out' = [command |-> IF Allowed(guard) /\ node.last_command # None
                             THEN node.last_command ELSE "Zero",
                 hold |-> holding]
  BY DEF ReferenceInvariant, OnTimer
<1>2. /\ left \in [last_command: Commands \cup {None}, steering_calibration: Times,
           processed_at: [Throttled -> Times], last_status_reason: {left.last_status_reason}]
      /\ left.last_command = node.last_command /\ left.processed_at = node.processed_at
      /\ left.steering_calibration = kept
  BY <1>1 DEF NodeTyped, Times
<1>3. Allowed(guard) <=> Cpp!Allowed
  BY SameVerdict
<1>4. CommandQuiescent <=> Cpp!LastCommandQuiescent
  BY DEF CommandQuiescent, Quiescent, Cpp!LastCommandQuiescent, Cpp!Quiescent
<1>5. holding <=> Cpp!HoldInForce
  BY <1>3, <1>4, Zenon DEF Cpp!HoldInForce
<1> HIDE DEF left
<1>6. /\ NodeTyped' /\ node'.last_command = node.last_command
      /\ node'.steering_calibration = kept
      /\ node'.processed_at = node.processed_at
  BY <1>1, <1>2, ReportedKeeps DEF NodeTyped
<1>7. GuardTyped' /\ NodeFollowsGuard'
  BY <1>1, <1>6 DEF GuardTyped, NodeFollowsGuard, IsPast
<1>8. Cpp!OnTimer
  <2> HIDE DEF holding
  <2>1. (Allowed(guard) <=> Cpp!Allowed) /\ (holding <=> Cpp!HoldInForce) /\ holding \in BOOLEAN
        /\ Cpp!HoldInForce \in BOOLEAN
    BY <1>3, <1>5 DEF holding, Cpp!HoldInForce
  <2>2. out' = [command |-> IF Cpp!Allowed /\ node.last_command # None
                            THEN node.last_command ELSE "Zero",
                hold |-> Cpp!HoldInForce]
    BY <1>1, <2>1, Zenon
  <2>3. node'.steering_calibration = IF Cpp!HoldInForce THEN node.steering_calibration ELSE None
    BY <1>6, <2>1
  <2>4. QED
    BY <1>1, <1>6, <2>2, <2>3, Zenon DEF Cpp!OnTimer, Cpp!commandVars, Cpp!sensorVars, Cpp!worldVars
<1>9. QED
  BY <1>6, <1>7, <1>8 DEF ReferenceInvariant

\* Time passes for both.
LEMMA TickImplements ==
  ASSUME ReferenceInvariant, Passes
  PROVE  ReferenceInvariant' /\ Cpp!Tick
<1> USE ReferenceAssumption
<1>1. /\ GuardTyped /\ NodeTyped /\ NodeFollowsGuard /\ now' = now + 1 /\ guard' = guard
      /\ seen' = seen /\ node' = node /\ out' = None /\ now < MaxTime /\ now \in Nat
  BY DEF ReferenceInvariant, Passes, GuardTyped
<1>2. GuardTyped'
  <2>1. ASSUME NEW at \in Times, IsPast(at) PROVE at # None => at <= now'
    BY <1>1, <2>1 DEF IsPast, Times
  <2>2. QED
    BY <1>1, <2>1 DEF GuardTyped, IsPast
<1>3. NodeTyped' /\ NodeFollowsGuard'
  BY <1>1 DEF NodeTyped, NodeFollowsGuard
<1>4. Cpp!Tick
  BY <1>1 DEF Cpp!Tick, Cpp!commandVars, Cpp!sensorVars, Cpp!worldVars
<1>5. QED
  BY <1>2, <1>3, <1>4 DEF ReferenceInvariant

\* Every step keeps the invariant and is a step of the C++ node, or leaves it alone.
LEMMA ReferenceStep ==
  ASSUME ReferenceInvariant, [ReferenceNext]_referenceVars
  PROVE  ReferenceInvariant' /\ [Cpp!Next]_Cpp!vars
<1>1. ASSUME NEW c \in Commands, OnCommand(c) PROVE ReferenceInvariant' /\ Cpp!Next
  BY <1>1, CommandImplements, Zenon DEF Cpp!Next, Cpp!Commands, Commands
<1>2. ASSUME NEW s \in Sensors, OnSensor(s) PROVE ReferenceInvariant' /\ Cpp!Next
  BY <1>2, SensorImplements, Zenon DEF Cpp!Next
<1>3. ASSUME NEW v \in {"Good", "Low", "NotFinite"}, OnVoltage(v)
      PROVE  ReferenceInvariant' /\ Cpp!Next
  BY <1>3, VoltageImplements, Zenon DEF Cpp!Next, Cpp!Voltages
<1>4. ASSUME NEW engage \in BOOLEAN, OnEmergencyStop(engage) PROVE ReferenceInvariant' /\ Cpp!Next
  BY <1>4, EmergencyStopImplements, Zenon DEF Cpp!Next
<1>5. ASSUME NEW duration \in 0 .. MaxHold + 1, OnSteeringCalibrationHold(duration)
      PROVE  ReferenceInvariant' /\ Cpp!Next
  BY <1>5, HoldImplements, Zenon DEF Cpp!Next
<1>6. ASSUME OnTimer PROVE ReferenceInvariant' /\ Cpp!Next
  BY <1>6, TimerImplements, Zenon DEF Cpp!Next
<1>7. ASSUME Passes PROVE ReferenceInvariant' /\ Cpp!Next
  BY <1>7, TickImplements, Zenon DEF Cpp!Next
<1>8. ASSUME UNCHANGED referenceVars PROVE ReferenceInvariant' /\ Cpp!vars' = Cpp!vars
  BY <1>8 DEF referenceVars, ReferenceInvariant, GuardTyped, NodeTyped, NodeFollowsGuard, IsPast,
     Cpp!vars, Cpp!commandVars, Cpp!sensorVars, Cpp!worldVars
<1>9. QED
  BY <1>1, <1>2, <1>3, <1>4, <1>5, <1>6, <1>7, <1>8, Zenon DEF ReferenceNext

\* The fields of the Python node and of its guard agree in every state reached.
THEOREM ReferenceInvariantHolds == ReferenceSpec => []ReferenceInvariant
<1>1. ReferenceInvariant /\ [ReferenceNext]_referenceVars => ReferenceInvariant'
  BY ReferenceStep
<1>2. QED
  BY <1>1, ReferenceStarts, PTL DEF ReferenceSpec

\* The Python node implements the C++ node, with every number of sensors, every set of
\* them required or throttled and every limit: what SafetyNodeProofs shows of the C++
\* node holds of the fallback (guard.py, safety_node.py against guard.cpp, safety_node.cpp).
THEOREM ReferenceImplements == ReferenceSpec => ImplementsCppNode
<1>1. ReferenceInit => Cpp!Init
  BY ReferenceAssumption DEF ReferenceInit, GuardInit, Cpp!Init
<1>2. ReferenceInvariant /\ [ReferenceNext]_referenceVars => [Cpp!Next]_Cpp!vars
  BY ReferenceStep
<1>3. QED
  BY <1>1, <1>2, ReferenceInvariantHolds, PTL DEF ReferenceSpec, ImplementsCppNode, Cpp!Spec

-----------------------------------------------------------------------------
(* The supervised drive. *)

\* The state of the process, of its calls and of the car.
Phases == {"preflight", "verify", "limits", "drive", "watch", "ended"} \cup CallPcs
Reasons ==
  {"none", "mission_completed", "mission_completed_without_motion_proof", "task_terminal",
   "watchdog", "safety_blocked", "ackermann_speed_limit", "timeout"}
TestType ==
  [pc: Phases, sent: BOOLEAN, latch: {"untried", "sent", "unavailable"}, failing: BOOLEAN,
   interrupted: BOOLEAN, lastState: States \cup {""},
   lastSafety: {"", "ok", "other", "emergency_stop"},
   lastSpeed: {"unknown", "zero", "drive", "over"},
   sawNavigating: BOOLEAN, moved: BOOLEAN, nonzero: BOOLEAN,
   reason: Reasons, result: {"none", "passed", "failed"}]
CallsType ==
  [estop: Seq(Request), start: Seq(Request), stop: Seq(Request), answer: {"none", "yes", "no"}]
CarType ==
  [estop: BOOLEAN, released: BOOLEAN, supervised: BOOLEAN, capped: BOOLEAN,
   limits: SUBSET Servers, state: States, stopping: BOOLEAN,
   mission: {"test", "other"} \cup Terminal, said: Seq(States), speed: {"zero", "drive", "over"}]

\* The parts of the invariant, of any process t, queue q of the emergency stop and car c.
ReleaseIn(q) == \E i \in DOMAIN q : ~ q[i].data
LatchIn(q) == \E i \in DOMAIN q : q[i].data
PhasesOf(t, q, c) ==
  /\ t.pc = "limits" => c.supervised
  /\ (\/ t.pc \in {"clear", "start", "drive", "watch"}
      \/ t.pc \in {"stop", "latch"} /\ ~ t.failing
      \/ t.result = "passed" \/ c.released \/ ReleaseIn(q))
     => c.supervised /\ c.limits = Servers
  /\ c.released \/ ReleaseIn(q) => t.pc \notin {"preflight", "verify", "limits"}
  /\ t.interrupted \/ t.result = "passed" => t.pc = "ended"
  /\ t.pc = "latch" /\ t.sent => t.latch = "sent"
  /\ t.pc \in {"preflight", "verify", "limits", "clear", "start", "drive"} => t.latch = "untried"
  /\ t.pc \in {"watch", "ended"} => t.latch # "untried" \/ t.interrupted
LatchOf(t, q, c) ==
  /\ \A i, j \in DOMAIN q : i < j /\ q[i].data => q[j].data
  /\ LatchIn(q) => t.pc \in {"stop", "latch", "watch", "ended"}
  /\ t.latch = "sent" => LatchIn(q) \/ (~ c.released /\ ~ ReleaseIn(q))
MissionOf(c) ==
  /\ c.state = "WAITING_FOR_SERVERS" => c.mission # "other"
  /\ c.mission = "test" => c.state \in Running
  /\ c.mission \in Terminal => c.state \in Terminal
Heard(t) == t.lastState = "NAVIGATING" \/ t.sawNavigating
StatesOf(t, c) ==
  /\ Heard(t) \/ (\E i \in DOMAIN c.said : c.said[i] = "NAVIGATING") => c.mission # "other"
  /\ \A i, j \in DOMAIN c.said :
       i < j /\ c.said[i] = "NAVIGATING" /\ c.said[j] = "COMPLETED" => c.mission = "COMPLETED"
  /\ Heard(t) => \A j \in DOMAIN c.said : c.said[j] = "COMPLETED" => c.mission = "COMPLETED"
  /\ t.sawNavigating /\ t.lastState = "COMPLETED" => c.mission = "COMPLETED"
  /\ t.reason = "mission_completed" \/ t.result = "passed" => c.mission = "COMPLETED"
TypeOf(t, k, c) == t \in TestType /\ k \in CallsType /\ c \in CarType
DriveOf(t, k, c) ==
  /\ TypeOf(t, k, c) /\ PhasesOf(t, k.estop, c) /\ LatchOf(t, k.estop, c)
  /\ MissionOf(c) /\ StatesOf(t, c)

\* They are the invariant of the state and of the next one.
LEMMA PartsAre ==
  /\ DriveInvariant <=> DriveOf(test, calls, car)
  /\ DriveInvariant' <=> DriveOf(test', calls', car')
<1>1. /\ DriveTypeOK <=> TypeOf(test, calls, car)
      /\ DriveTypeOK' <=> TypeOf(test', calls', car')
  BY DEF DriveTypeOK, TypeOf, TestType, CallsType, CarType, Phases, Reasons
<1>2. /\ PhasesFollow <=> PhasesOf(test, calls.estop, car)
      /\ PhasesFollow' <=> PhasesOf(test', calls'.estop, car')
  BY Zenon DEF PhasesFollow, PhasesOf, ReleaseUnderWay, ReleaseIn, At
<1>3. /\ LatchFollows <=> LatchOf(test, calls.estop, car)
      /\ LatchFollows' <=> LatchOf(test', calls'.estop, car')
  BY Zenon DEF LatchFollows, LatchOf, LatchUnderWay, LatchIn, ReleaseUnderWay, ReleaseIn
<1>4. /\ MissionFollows <=> MissionOf(car)
      /\ MissionFollows' <=> MissionOf(car')
  BY Zenon DEF MissionFollows, MissionOf
<1>5. /\ StatesFollow <=> StatesOf(test, car)
      /\ StatesFollow' <=> StatesOf(test', car')
  BY Zenon DEF StatesFollow, StatesOf, HeardNavigating, Heard, IsOwn
<1>6. QED
  BY <1>1, <1>2, <1>3, <1>4, <1>5, Zenon DEF DriveInvariant, DriveOf

\* What is left of a queue when its first was taken.
LEMMA TailIs ==
  ASSUME NEW S, NEW q \in Seq(S), q # << >>
  PROVE  /\ Len(q) \in Nat /\ DOMAIN q = 1 .. Len(q) /\ 1 \in DOMAIN q /\ Head(q) = q[1]
         /\ q[1] \in S /\ Tail(q) \in Seq(S)
         /\ DOMAIN Tail(q) = 1 .. Len(q) - 1
         /\ \A i \in DOMAIN Tail(q) : i \in Nat /\ i + 1 \in DOMAIN q /\ Tail(q)[i] = q[i + 1]
         /\ \A j \in DOMAIN q : j = 1 \/ (j - 1 \in DOMAIN Tail(q) /\ Tail(q)[j - 1] = q[j])
<1>1. Len(q) \in Nat \ {0} /\ DOMAIN q = 1 .. Len(q)
  BY EmptySeq, LenProperties
<1>2. /\ Tail(q) \in Seq(S) /\ Len(Tail(q)) = Len(q) - 1
      /\ \A i \in 1 .. Len(Tail(q)) : Tail(q)[i] = q[i + 1]
  BY HeadTailProperties
<1>3. DOMAIN Tail(q) = 1 .. Len(q) - 1
  BY <1>2, LenProperties
<1>4. q[1] \in S /\ Head(q) = q[1]
  BY <1>1, ElementOfSeq
<1>5. QED
  BY <1>1, <1>2, <1>3, <1>4

\* What a queue is when one came behind it.
LEMMA AppendIs ==
  ASSUME NEW S, NEW q \in Seq(S), NEW e \in S
  PROVE  /\ Len(q) \in Nat /\ DOMAIN q = 1 .. Len(q) /\ Append(q, e) \in Seq(S)
         /\ DOMAIN Append(q, e) = 1 .. Len(q) + 1
         /\ \A i \in DOMAIN q : i \in DOMAIN Append(q, e) /\ Append(q, e)[i] = q[i]
         /\ Len(q) + 1 \in DOMAIN Append(q, e) /\ Append(q, e)[Len(q) + 1] = e
         /\ \A i \in DOMAIN Append(q, e) : i \in DOMAIN q \/ i = Len(q) + 1
<1>1. Len(q) \in Nat /\ DOMAIN q = 1 .. Len(q)
  BY LenProperties
<1>2. /\ Append(q, e) \in Seq(S) /\ Len(Append(q, e)) = Len(q) + 1
      /\ \A i \in 1 .. Len(q) : Append(q, e)[i] = q[i]
      /\ Append(q, e)[Len(q) + 1] = e
  BY AppendProperties
<1>3. DOMAIN Append(q, e) = 1 .. Len(q) + 1
  BY <1>2, LenProperties
<1>4. QED
  BY <1>1, <1>2, <1>3

\* A caller who gives up leaves his requests where they are.
LEMMA GivenUpIs ==
  ASSUME NEW q \in Seq(Request)
  PROVE  /\ GivenUp(q) \in Seq(Request) /\ DOMAIN GivenUp(q) = DOMAIN q
         /\ \A i \in DOMAIN q : GivenUp(q)[i].data = q[i].data
<1>1. Len(q) \in Nat /\ DOMAIN q = 1 .. Len(q) /\ \A i \in DOMAIN q : q[i] \in Request
  BY LenProperties, ElementOfSeq
<1>2. \A i \in DOMAIN q : [q[i] EXCEPT !.awaited = FALSE] \in Request
                          /\ [q[i] EXCEPT !.awaited = FALSE].data = q[i].data
  BY <1>1 DEF Request
<1>3. \A i \in DOMAIN q : GivenUp(q)[i] = [q[i] EXCEPT !.awaited = FALSE]
  BY DEF GivenUp
<1>4. GivenUp(q) \in Seq(Request) /\ DOMAIN GivenUp(q) = DOMAIN q
  BY <1>1, <1>2 DEF GivenUp
<1>5. QED
  BY <1>2, <1>3, <1>4

\* It holds at the start.
LEMMA DriveStarts == ShortDriveInit => DriveInvariant
<1> SUFFICES ASSUME ShortDriveInit PROVE DriveOf(test, calls, car)
  BY PartsAre
<1>1. test = Process("preflight")
      /\ calls = [estop |-> << >>, start |-> << >>, stop |-> << >>, answer |-> "none"]
  BY DEF ShortDriveInit, TestInit
<1>2. PICK estop, supervised, capped \in BOOLEAN, state \in {"IDLE", "NAVIGATING"},
           speed \in {"zero", "drive"} :
        car = [estop |-> estop, released |-> FALSE,
               supervised |-> supervised, capped |-> capped, limits |-> {},
               state |-> state, stopping |-> FALSE, mission |-> "other",
               said |-> << >>, speed |-> IF estop THEN "zero" ELSE speed]
  BY DEF ShortDriveInit, CarInit
<1>3. /\ test.pc = "preflight" /\ test.latch = "untried" /\ ~ test.sent /\ ~ test.interrupted
      /\ test.lastState = "" /\ ~ test.sawNavigating /\ test.reason = "none" /\ test.result = "none"
      /\ test \in TestType
  BY <1>1 DEF Process, TestType, Phases, Reasons
<1>4. /\ ~ car.released /\ car.mission = "other" /\ car.said = << >>
      /\ car.state \in {"IDLE", "NAVIGATING"} /\ car \in CarType
  BY <1>2, EmptySeq DEF CarType, States, Running, Terminal
<1>5. /\ calls.estop = << >> /\ calls \in CallsType
  BY <1>1, EmptySeq DEF CallsType
<1>6. DOMAIN calls.estop = {} /\ DOMAIN car.said = {}
  BY <1>4, <1>5
<1>7. TypeOf(test, calls, car)
  BY <1>3, <1>4, <1>5 DEF TypeOf
<1>8. PhasesOf(test, calls.estop, car) /\ LatchOf(test, calls.estop, car)
  BY <1>3, <1>4, <1>6 DEF PhasesOf, LatchOf, ReleaseIn, LatchIn
<1>9. MissionOf(car) /\ StatesOf(test, car)
  BY <1>3, <1>4, <1>6 DEF MissionOf, StatesOf, Running, Terminal, Heard
<1>10. QED
  BY <1>7, <1>8, <1>9 DEF DriveOf

\* What the parts depend on of the car.
LEMMA CarKeepsPhases ==
  ASSUME NEW t, NEW q, NEW c, NEW d, PhasesOf(t, q, c), LatchOf(t, q, c),
         d.released = c.released, d.supervised = c.supervised, d.limits = c.limits
  PROVE  PhasesOf(t, q, d) /\ LatchOf(t, q, d)
BY DEF PhasesOf, LatchOf
LEMMA CarKeepsStates ==
  ASSUME NEW t, NEW c, NEW d, MissionOf(c), StatesOf(t, c),
         d.state = c.state, d.mission = c.mission, d.said = c.said
  PROVE  MissionOf(d) /\ StatesOf(t, d)
BY DEF MissionOf, StatesOf

\* A state is said, of a mission that is or becomes whose it is.
LEMMA SaysKeeps ==
  ASSUME NEW t, NEW c \in CarType, NEW d, StatesOf(t, c), NEW state \in States,
         d.said = Append(c.said, state),
         c.mission \in {"test", "other"}, c.mission # "other" => d.mission # "other",
         state = "NAVIGATING" => d.mission # "other",
         state = "COMPLETED" /\ c.mission # "other" => d.mission = "COMPLETED"
  PROVE  StatesOf(t, d) /\ d.said \in Seq(States)
<1>1. c.said \in Seq(States)
  BY DEF CarType
<1>2. /\ Len(c.said) \in Nat /\ DOMAIN c.said = 1 .. Len(c.said) /\ d.said \in Seq(States)
      /\ DOMAIN d.said = 1 .. Len(c.said) + 1
      /\ \A i \in DOMAIN c.said : i \in DOMAIN d.said /\ d.said[i] = c.said[i]
      /\ Len(c.said) + 1 \in DOMAIN d.said /\ d.said[Len(c.said) + 1] = state
      /\ \A i \in DOMAIN d.said : i \in DOMAIN c.said \/ i = Len(c.said) + 1
  BY <1>1, AppendIs
<1>3. c.mission # "COMPLETED"
  OBVIOUS
<1>4. Heard(t) \/ (\E i \in DOMAIN d.said : d.said[i] = "NAVIGATING") => d.mission # "other"
  BY <1>2 DEF StatesOf
<1>5. \A i, j \in DOMAIN d.said :
        i < j /\ d.said[i] = "NAVIGATING" /\ d.said[j] = "COMPLETED" => d.mission = "COMPLETED"
  <2> SUFFICES ASSUME NEW i \in DOMAIN d.said, NEW j \in DOMAIN d.said,
                      i < j, d.said[i] = "NAVIGATING", d.said[j] = "COMPLETED"
               PROVE  d.mission = "COMPLETED"
    OBVIOUS
  <2>1. i \in DOMAIN c.said /\ c.said[i] = "NAVIGATING"
    BY <1>2
  <2>2. c.mission # "other"
    BY <2>1 DEF StatesOf
  <2>3. CASE j \in DOMAIN c.said
    BY <1>2, <1>3, <2>1, <2>3 DEF StatesOf
  <2>4. CASE j = Len(c.said) + 1
    BY <1>2, <2>2, <2>4
  <2>5. QED
    BY <1>2, <2>3, <2>4
<1>6. Heard(t) => \A j \in DOMAIN d.said : d.said[j] = "COMPLETED" => d.mission = "COMPLETED"
  BY <1>2, <1>3 DEF StatesOf
<1>7. /\ t.sawNavigating /\ t.lastState = "COMPLETED" => d.mission = "COMPLETED"
      /\ t.reason = "mission_completed" \/ t.result = "passed" => d.mission = "COMPLETED"
  BY <1>3 DEF StatesOf
<1>8. QED
  BY <1>2, <1>4, <1>5, <1>6, <1>7 DEF StatesOf

\* The task node says where its mission is.
LEMMA MissionKeepsDrive ==
  ASSUME DriveInvariant, MissionNavigates \/ (\E state \in Terminal : MissionEnds(state))
                         \/ OperatorResets
  PROVE  DriveInvariant'
<1> USE DEF Running, Terminal, States
<1>1. DriveOf(test, calls, car) /\ test' = test /\ calls' = calls
  BY PartsAre DEF MissionNavigates, MissionEnds, OperatorResets
<1>2. /\ TypeOf(test, calls, car) /\ PhasesOf(test, calls.estop, car)
      /\ LatchOf(test, calls.estop, car) /\ MissionOf(car) /\ StatesOf(test, car)
      /\ car \in CarType
  BY <1>1 DEF DriveOf, TypeOf
<1>3. PICK state \in States, mission \in {"test", "other"} \cup Terminal :
        /\ car' = [car EXCEPT !.state = state, !.said = Append(@, state), !.mission = mission]
        /\ car.mission \in {"test", "other"}
        /\ car.mission # "other" => mission # "other"
        /\ state = "NAVIGATING" => mission # "other"
        /\ state = "COMPLETED" /\ car.mission # "other" => mission = "COMPLETED"
        /\ state # "WAITING_FOR_SERVERS"
        /\ mission = "test" => state = "NAVIGATING"
        /\ mission \in Terminal => state \in Terminal
  <2>1. car.mission \in {"test", "other"} \cup Terminal
    BY <1>2 DEF CarType
  <2>2. CASE MissionNavigates
    <3>1. car' = [car EXCEPT !.state = "NAVIGATING", !.said = Append(@, "NAVIGATING")]
          /\ car.state = "WAITING_FOR_SERVERS"
      BY <2>2 DEF MissionNavigates, Says
    <3>2. car.mission = "test"
      BY <1>2, <2>1, <3>1 DEF MissionOf
    <3>3. car' = [car EXCEPT !.state = "NAVIGATING", !.said = Append(@, "NAVIGATING"),
                             !.mission = "test"]
      BY <1>2, <3>1, <3>2 DEF CarType
    <3>4. QED
      BY <3>2, <3>3
  <2>3. CASE \E state \in Terminal : MissionEnds(state)
    <3>1. PICK state \in Terminal : MissionEnds(state)
      BY <2>3
    <3>2. /\ car.state \in Running
          /\ car' = [[car EXCEPT !.state = state, !.said = Append(@, state)] EXCEPT
                       !.mission = IF @ = "test" THEN state ELSE @]
      BY <3>1 DEF MissionEnds, Says
    <3>3. car.mission \in {"test", "other"}
      BY <1>2, <2>1, <3>2 DEF MissionOf
    <3>4. car' = [car EXCEPT !.state = state, !.said = Append(@, state),
                             !.mission = IF car.mission = "test" THEN state ELSE car.mission]
      BY <1>2, <3>2 DEF CarType
    <3>5. QED
      BY <3>3, <3>4
  <2>4. CASE OperatorResets
    <3>1. /\ car' = [car EXCEPT !.state = "IDLE", !.said = Append(@, "IDLE")]
          /\ car.mission = "other"
      BY <2>4 DEF OperatorResets, Says
    <3>2. car' = [car EXCEPT !.state = "IDLE", !.said = Append(@, "IDLE"), !.mission = "other"]
      BY <1>2, <3>1 DEF CarType
    <3>3. QED
      BY <3>1, <3>2
  <2>5. QED
    BY <2>2, <2>3, <2>4
<1>4. /\ car'.state = state /\ car'.said = Append(car.said, state) /\ car'.mission = mission
      /\ car'.released = car.released /\ car'.supervised = car.supervised
      /\ car'.limits = car.limits
  BY <1>2, <1>3 DEF CarType
<1>5. StatesOf(test, car') /\ car'.said \in Seq(States)
  BY <1>2, <1>3, <1>4, SaysKeeps
<1>6. MissionOf(car')
  BY <1>3, <1>4 DEF MissionOf
<1>7. PhasesOf(test, calls.estop, car') /\ LatchOf(test, calls.estop, car')
  BY <1>2, <1>4, CarKeepsPhases
<1>8. TypeOf(test, calls, car')
  BY <1>2, <1>3, <1>4, <1>5 DEF TypeOf, CarType
<1>9. QED
  BY <1>1, <1>5, <1>6, <1>7, <1>8, PartsAre DEF DriveOf

\* A stop or a command to the wheels changes nothing the invariant speaks of.
LEMMA WheelsKeepDrive ==
  ASSUME DriveInvariant, OperatorStops \/ WheelsAreTold
  PROVE  DriveInvariant'
<1>1. /\ DriveOf(test, calls, car) /\ test' = test /\ calls' = calls
  BY PartsAre DEF OperatorStops, WheelsAreTold
<1>2. /\ TypeOf(test, calls, car) /\ PhasesOf(test, calls.estop, car)
      /\ LatchOf(test, calls.estop, car) /\ MissionOf(car) /\ StatesOf(test, car)
      /\ car \in CarType
  BY <1>1 DEF DriveOf, TypeOf
<1>3. \/ car' = [car EXCEPT !.estop = TRUE]
      \/ \E speed \in {"zero", "drive", "over"} : car' = [car EXCEPT !.speed = speed]
  BY DEF OperatorStops, WheelsAreTold
<1>4. /\ car' \in CarType
      /\ car'.released = car.released /\ car'.supervised = car.supervised
      /\ car'.limits = car.limits
      /\ car'.state = car.state /\ car'.mission = car.mission /\ car'.said = car.said
  BY <1>2, <1>3 DEF CarType
<1>5. QED
  BY <1>1, <1>2, <1>4, PartsAre, CarKeepsPhases, CarKeepsStates DEF DriveOf, TypeOf

\* An answer changes nothing of the requests.
LEMMA AnsweredIs ==
  ASSUME calls \in CallsType, NEW request \in Request, NEW ok \in BOOLEAN
  PROVE  /\ Answered(request, ok) \in CallsType
         /\ Answered(request, ok).estop = calls.estop /\ Answered(request, ok).start = calls.start
         /\ Answered(request, ok).stop = calls.stop
BY DEF Answered, CallsType, Request

\* The safety node serves a release, which was under way, or a latch, with no release
\* behind it.
LEMMA ServeEmergencyStopKeepsDrive ==
  ASSUME DriveInvariant, ServeEmergencyStop
  PROVE  DriveInvariant'
<1> DEFINE request == Head(calls.estop)
           q == calls.estop
           r == Tail(calls.estop)
<1>1. /\ DriveOf(test, calls, car) /\ test' = test
  BY PartsAre DEF ServeEmergencyStop
<1>2. /\ TypeOf(test, calls, car) /\ PhasesOf(test, calls.estop, car)
      /\ LatchOf(test, calls.estop, car) /\ MissionOf(car) /\ StatesOf(test, car)
      /\ car \in CarType /\ calls \in CallsType /\ calls.estop \in Seq(Request)
  BY <1>1 DEF DriveOf, TypeOf, CallsType
<1>3. /\ calls.estop # << >>
      /\ car' = [car EXCEPT !.estop = request.data, !.released = ~ request.data]
      /\ calls' = [Answered(request, TRUE) EXCEPT !.estop = Tail(@)]
  BY DEF ServeEmergencyStop
<1>4. /\ Len(q) \in Nat /\ DOMAIN q = 1 .. Len(q) /\ 1 \in DOMAIN q /\ request = q[1]
      /\ request \in Request /\ r \in Seq(Request)
      /\ DOMAIN r = 1 .. Len(q) - 1
      /\ \A i \in DOMAIN r : i \in Nat /\ i + 1 \in DOMAIN q /\ r[i] = q[i + 1]
      /\ \A j \in DOMAIN q : j = 1 \/ (j - 1 \in DOMAIN r /\ r[j - 1] = q[j])
  BY <1>2, <1>3, TailIs
<1>5. calls' \in CallsType /\ calls'.estop = r
  BY <1>2, <1>3, <1>4, AnsweredIs DEF CallsType
<1>6. /\ car' \in CarType /\ car'.released = ~ request.data
      /\ car'.supervised = car.supervised /\ car'.limits = car.limits
      /\ car'.state = car.state /\ car'.mission = car.mission /\ car'.said = car.said
  BY <1>2, <1>3, <1>4 DEF CarType, Request
<1>7. request.data \in BOOLEAN
  BY <1>4 DEF Request
<1> HIDE DEF q, r, request
<1>8. /\ LatchIn(q) <=> request.data \/ LatchIn(r)
      /\ ReleaseIn(q) <=> ~ request.data \/ ReleaseIn(r)
      /\ request.data => ~ ReleaseIn(r)
  <2>1. LatchIn(q) <=> request.data \/ LatchIn(r)
    BY <1>4 DEF LatchIn
  <2>2. ReleaseIn(q) <=> ~ request.data \/ ReleaseIn(r)
    BY <1>4 DEF ReleaseIn
  <2>3. request.data => ~ ReleaseIn(r)
    <3> SUFFICES ASSUME request.data, NEW i \in DOMAIN r PROVE r[i].data
      BY DEF ReleaseIn
    <3>1. 1 < i + 1 /\ i + 1 \in DOMAIN q /\ r[i] = q[i + 1]
      BY <1>4
    <3>2. \A a, b \in DOMAIN q : a < b /\ q[a].data => q[b].data
      BY <1>2 DEF LatchOf, q
    <3>3. QED
      BY <1>4, <3>1, <3>2
  <2>4. QED
    BY <2>1, <2>2, <2>3
<1>9. PhasesOf(test, q, car) /\ LatchOf(test, q, car)
  BY <1>2 DEF q
<1>10. PhasesOf(test, r, car')
  BY <1>6, <1>7, <1>8, <1>9 DEF PhasesOf
<1>11. LatchOf(test, r, car')
  <2>1. \A i, j \in DOMAIN r : i < j /\ r[i].data => r[j].data
    <3> SUFFICES ASSUME NEW i \in DOMAIN r, NEW j \in DOMAIN r, i < j, r[i].data PROVE r[j].data
      OBVIOUS
    <3>1. /\ i + 1 \in DOMAIN q /\ j + 1 \in DOMAIN q /\ i + 1 < j + 1
          /\ r[i] = q[i + 1] /\ r[j] = q[j + 1]
      BY <1>4
    <3>2. QED
      BY <1>9, <3>1 DEF LatchOf
  <2>2. QED
    BY <1>6, <1>7, <1>8, <1>9, <2>1 DEF LatchOf
<1>12. MissionOf(car') /\ StatesOf(test, car')
  BY <1>2, <1>6, CarKeepsStates
<1>13. QED
  BY <1>1, <1>2, <1>5, <1>6, <1>10, <1>11, <1>12, PartsAre DEF DriveOf, TypeOf

\* A start is accepted in IDLE only, when the mission before was not the test's.
LEMMA ServeStartKeepsDrive ==
  ASSUME DriveInvariant, ServeStart
  PROVE  DriveInvariant'
<1> DEFINE accepted == car.state = "IDLE"
<1>1. /\ DriveOf(test, calls, car) /\ test' = test
  BY PartsAre DEF ServeStart
<1>2. /\ TypeOf(test, calls, car) /\ PhasesOf(test, calls.estop, car)
      /\ LatchOf(test, calls.estop, car) /\ MissionOf(car) /\ StatesOf(test, car)
      /\ car \in CarType /\ calls \in CallsType /\ calls.start \in Seq(Request)
  BY <1>1 DEF DriveOf, TypeOf, CallsType
<1>3. /\ calls.start # << >>
      /\ car' = IF accepted
                THEN [Says("WAITING_FOR_SERVERS") EXCEPT !.mission = "test", !.stopping = FALSE]
                ELSE car
      /\ calls' = [Answered(Head(calls.start), accepted) EXCEPT !.start = Tail(@)]
  BY DEF ServeStart
<1>4. Head(calls.start) \in Request /\ Tail(calls.start) \in Seq(Request) /\ accepted \in BOOLEAN
  BY <1>2, <1>3, TailIs
<1>5. calls' \in CallsType /\ calls'.estop = calls.estop
  <2> HIDE DEF accepted
  <2>1. QED
    BY <1>2, <1>3, <1>4, AnsweredIs DEF CallsType
<1>6. CASE ~ accepted
  BY <1>1, <1>2, <1>3, <1>5, <1>6, PartsAre DEF DriveOf, TypeOf
<1>7. CASE accepted
  <2> USE DEF States, Running, Terminal
  <2>1. car' = [[car EXCEPT !.state = "WAITING_FOR_SERVERS", !.said = Append(@, "WAITING_FOR_SERVERS")]
                  EXCEPT !.mission = "test", !.stopping = FALSE]
    BY <1>3, <1>7 DEF Says
  <2>2. car.mission = "other"
    BY <1>2, <1>7 DEF MissionOf, CarType
  <2>3. /\ car'.state = "WAITING_FOR_SERVERS" /\ car'.said = Append(car.said, "WAITING_FOR_SERVERS")
        /\ car'.mission = "test" /\ car'.released = car.released
        /\ car'.supervised = car.supervised /\ car'.limits = car.limits
    BY <1>2, <2>1 DEF CarType
  <2>4. StatesOf(test, car') /\ car'.said \in Seq(States)
    BY <1>2, <2>2, <2>3, SaysKeeps
  <2>5. car' \in CarType
    BY <1>2, <2>1, <2>3, <2>4 DEF CarType
  <2>6. MissionOf(car')
    BY <2>3 DEF MissionOf
  <2>7. PhasesOf(test, calls.estop, car') /\ LatchOf(test, calls.estop, car')
    BY <1>2, <2>3, CarKeepsPhases
  <2>8. QED
    BY <1>1, <1>2, <1>5, <2>4, <2>5, <2>6, <2>7, PartsAre DEF DriveOf, TypeOf
<1>8. QED
  BY <1>6, <1>7

\* A stop is noted by a mission under way.
LEMMA ServeStopKeepsDrive ==
  ASSUME DriveInvariant, ServeStop
  PROVE  DriveInvariant'
<1>1. /\ DriveOf(test, calls, car) /\ test' = test
  BY PartsAre DEF ServeStop
<1>2. /\ TypeOf(test, calls, car) /\ PhasesOf(test, calls.estop, car)
      /\ LatchOf(test, calls.estop, car) /\ MissionOf(car) /\ StatesOf(test, car)
      /\ car \in CarType /\ calls \in CallsType /\ calls.stop \in Seq(Request)
  BY <1>1 DEF DriveOf, TypeOf, CallsType
<1>3. PICK ok \in BOOLEAN :
        /\ calls.stop # << >>
        /\ car' = [car EXCEPT !.stopping = @ \/ car.state \in Running]
        /\ calls' = [Answered(Head(calls.stop), ok) EXCEPT !.stop = Tail(@)]
  BY DEF ServeStop
<1>4. Head(calls.stop) \in Request /\ Tail(calls.stop) \in Seq(Request)
  BY <1>2, <1>3, TailIs
<1>5. calls' \in CallsType /\ calls'.estop = calls.estop
  BY <1>2, <1>3, <1>4, AnsweredIs DEF CallsType
<1>6. /\ car' \in CarType
      /\ car'.released = car.released /\ car'.supervised = car.supervised
      /\ car'.limits = car.limits
      /\ car'.state = car.state /\ car'.mission = car.mission /\ car'.said = car.said
  BY <1>2, <1>3 DEF CarType
<1>7. QED
  BY <1>1, <1>2, <1>5, <1>6, PartsAre, CarKeepsPhases, CarKeepsStates DEF DriveOf, TypeOf

\* What the process hears in one turn: of the task node the oldest state said and not yet
\* heard, and of itself nothing but that changes.
LEMMA HearingKeeps ==
  ASSUME DriveOf(test, calls, car), NEW heard \in AfterHearing
  PROVE  /\ DriveOf(heard.test, calls, heard.car)
         /\ heard.test.pc = test.pc /\ heard.test.sawNavigating = test.sawNavigating
         /\ heard.test.latch = test.latch
<1>1. /\ TypeOf(test, calls, car) /\ PhasesOf(test, calls.estop, car)
      /\ LatchOf(test, calls.estop, car) /\ MissionOf(car) /\ StatesOf(test, car)
      /\ car \in CarType /\ calls \in CallsType /\ test \in TestType
  BY DEF DriveOf, TypeOf
<1>2. Statuses \subseteq {"", "ok", "other", "emergency_stop"}
  BY DEF Statuses
<1>3. /\ heard.test \in TestType
      /\ heard.test.pc = test.pc /\ heard.test.sawNavigating = test.sawNavigating
      /\ heard.test.latch = test.latch /\ heard.test.failing = test.failing
      /\ heard.test.sent = test.sent
      /\ heard.test.interrupted = test.interrupted /\ heard.test.result = test.result
      /\ heard.test.reason = test.reason
      /\ \/ heard.test.lastState = test.lastState /\ heard.car = car
         \/ /\ car.said # << >> /\ heard.test.lastState = Head(car.said)
            /\ heard.car = [car EXCEPT !.said = Tail(@)]
  <2>1. CASE heard = [test |-> test, car |-> car]
    BY <1>1, <2>1
  <2>2. CASE heard = [test |-> [test EXCEPT !.lastSpeed = car.speed, !.moved = @ \/ car.speed # "zero"],
                      car |-> car]
    <3>1. car.speed \in {"unknown", "zero", "drive", "over"}
      BY <1>1 DEF CarType
    <3>2. QED
      BY <1>1, <2>2, <3>1 DEF TestType
  <2>3. ASSUME NEW status \in Statuses,
               heard = [test |-> [test EXCEPT !.lastSafety = status], car |-> car]
        PROVE  <1>3
    BY <1>1, <1>2, <2>3 DEF TestType
  <2>4. CASE /\ car.said # << >>
             /\ heard = [test |-> [test EXCEPT !.lastState = Head(car.said)],
                         car |-> [car EXCEPT !.said = Tail(@)]]
    <3>1. Head(car.said) \in States \cup {""}
      <4>1. car.said \in Seq(States)
        BY <1>1 DEF CarType
      <4>2. QED
        BY <2>4, <4>1, TailIs
    <3>2. QED
      BY <1>1, <2>4, <3>1 DEF TestType
  <2>5. QED
    BY <2>1, <2>2, <2>3, <2>4 DEF AfterHearing
<1>4. PhasesOf(heard.test, calls.estop, car) /\ LatchOf(heard.test, calls.estop, car)
  BY <1>1, <1>3 DEF PhasesOf, LatchOf
<1>5. CASE heard.test.lastState = test.lastState /\ heard.car = car
  <2>1. StatesOf(heard.test, car)
    BY <1>1, <1>3, <1>5 DEF StatesOf, Heard
  <2>2. QED
    BY <1>1, <1>3, <1>4, <1>5, <2>1 DEF DriveOf, TypeOf
<1>6. CASE /\ car.said # << >> /\ heard.test.lastState = Head(car.said)
           /\ heard.car = [car EXCEPT !.said = Tail(@)]
  <2> DEFINE q == car.said
             r == Tail(car.said)
             t == heard.test
             c == heard.car
  <2>1. car.said \in Seq(States)
    BY <1>1 DEF CarType
  <2>2. /\ Len(q) \in Nat /\ DOMAIN q = 1 .. Len(q) /\ 1 \in DOMAIN q /\ Head(q) = q[1]
        /\ r \in Seq(States)
        /\ DOMAIN r = 1 .. Len(q) - 1
        /\ \A i \in DOMAIN r : i \in Nat /\ i + 1 \in DOMAIN q /\ r[i] = q[i + 1]
    BY <1>6, <2>1, TailIs
  <2>3. /\ c \in CarType /\ c.said = r /\ c.mission = car.mission /\ c.state = car.state
        /\ c.released = car.released /\ c.supervised = car.supervised /\ c.limits = car.limits
    BY <1>1, <1>6, <2>2 DEF CarType
  <2>4. MissionOf(c)
    BY <1>1, <2>3 DEF MissionOf
  <2>5. PhasesOf(t, calls.estop, c) /\ LatchOf(t, calls.estop, c)
    BY <1>4, <2>3, CarKeepsPhases
  <2>6. /\ t.lastState = q[1] /\ t.sawNavigating = test.sawNavigating
        /\ t.reason = test.reason /\ t.result = test.result
    BY <1>3, <1>6, <2>2
  <2>7. StatesOf(test, car) /\ q = car.said
    BY <1>1
  <2> HIDE DEF q, r, t, c
  <2>8. Heard(t) \/ (\E i \in DOMAIN c.said : c.said[i] = "NAVIGATING") => c.mission # "other"
    BY <2>2, <2>3, <2>6, <2>7 DEF StatesOf, Heard
  <2>9. \A i, j \in DOMAIN c.said :
          i < j /\ c.said[i] = "NAVIGATING" /\ c.said[j] = "COMPLETED" => c.mission = "COMPLETED"
    <3> SUFFICES ASSUME NEW i \in DOMAIN r, NEW j \in DOMAIN r, i < j,
                        r[i] = "NAVIGATING", r[j] = "COMPLETED"
                 PROVE  c.mission = "COMPLETED"
      BY <2>3
    <3>1. i + 1 \in DOMAIN q /\ j + 1 \in DOMAIN q /\ i + 1 < j + 1 /\ r[i] = q[i + 1] /\ r[j] = q[j + 1]
      BY <2>2
    <3>2. QED
      BY <2>3, <2>7, <3>1 DEF StatesOf
  <2>10. Heard(t) => \A j \in DOMAIN c.said : c.said[j] = "COMPLETED" => c.mission = "COMPLETED"
    <3> SUFFICES ASSUME Heard(t), NEW j \in DOMAIN r, r[j] = "COMPLETED"
                 PROVE  c.mission = "COMPLETED"
      BY <2>3
    <3>1. 1 < j + 1 /\ j + 1 \in DOMAIN q /\ r[j] = q[j + 1]
      BY <2>2
    <3>2. CASE q[1] = "NAVIGATING"
      BY <2>2, <2>3, <2>7, <3>1, <3>2 DEF StatesOf
    <3>3. CASE test.sawNavigating
      BY <2>3, <2>7, <3>1, <3>3 DEF StatesOf, Heard
    <3>4. QED
      BY <2>6, <3>2, <3>3 DEF Heard
  <2>11. t.sawNavigating /\ t.lastState = "COMPLETED" => c.mission = "COMPLETED"
    BY <2>2, <2>3, <2>6, <2>7 DEF StatesOf, Heard
  <2>12. t.reason = "mission_completed" \/ t.result = "passed" => c.mission = "COMPLETED"
    BY <2>3, <2>6, <2>7 DEF StatesOf
  <2>13. StatesOf(t, c)
    BY <2>8, <2>9, <2>10, <2>11, <2>12 DEF StatesOf
  <2>14. QED
    BY <1>1, <1>3, <2>3, <2>4, <2>5, <2>13 DEF DriveOf, TypeOf, t, c
<1>7. QED
  BY <1>3, <1>5, <1>6

\* A process that raises, ends or leaves its loop keeps the invariant.
LEMMA RaisedKeeps ==
  ASSUME NEW t, NEW k, NEW c, DriveOf(t, k, c), t.pc # "ended",
         t.pc \in {"preflight", "verify", "limits"} => ~ LatchIn(k.estop)
  PROVE  DriveOf(Raised(t), k, c)
<1>1. /\ t \in TestType /\ PhasesOf(t, k.estop, c) /\ LatchOf(t, k.estop, c) /\ StatesOf(t, c)
      /\ TypeOf(t, k, c) /\ MissionOf(c)
  BY DEF DriveOf, TypeOf
<1>2. /\ Raised(t) \in TestType /\ Raised(t).pc = "stop" /\ Raised(t).failing /\ ~ Raised(t).sent
      /\ Raised(t).latch = t.latch /\ Raised(t).result = t.result /\ Raised(t).reason = t.reason
      /\ Raised(t).interrupted = t.interrupted /\ Raised(t).lastState = t.lastState
      /\ Raised(t).sawNavigating = t.sawNavigating
  BY <1>1 DEF Raised, TestType, Phases, CallPcs
<1>3. PhasesOf(Raised(t), k.estop, c) /\ LatchOf(Raised(t), k.estop, c)
  BY <1>1, <1>2 DEF PhasesOf, LatchOf
<1>4. StatesOf(Raised(t), c)
  BY <1>1, <1>2 DEF StatesOf, Heard
<1>5. QED
  BY <1>1, <1>2, <1>3, <1>4 DEF DriveOf, TypeOf

\* So does one that ends, if the latch was tried, and its result is earned.
LEMMA EndedKeeps ==
  ASSUME NEW t, NEW k, NEW c, DriveOf(t, k, c), NEW result \in {"passed", "failed"},
         t.pc \in {"latch", "watch"}, t.latch # "untried",
         result = "passed" => t.pc = "watch" /\ t.reason = "mission_completed"
  PROVE  DriveOf(Ended(t, result), k, c)
<1>1. /\ t \in TestType /\ PhasesOf(t, k.estop, c) /\ LatchOf(t, k.estop, c) /\ StatesOf(t, c)
      /\ TypeOf(t, k, c) /\ MissionOf(c)
  BY DEF DriveOf, TypeOf
<1> DEFINE e == Ended(t, result)
<1>2. /\ e \in TestType /\ e.pc = "ended" /\ ~ e.failing /\ ~ e.sent
      /\ e.latch = t.latch /\ e.result = result /\ e.reason = "none"
      /\ ~ e.interrupted /\ e.lastState = "" /\ ~ e.sawNavigating
  <2> DEFINE p == Process("ended")
  <2>1. /\ p \in TestType /\ p.pc = "ended" /\ ~ p.failing /\ ~ p.sent /\ p.reason = "none"
        /\ ~ p.interrupted /\ p.lastState = "" /\ ~ p.sawNavigating
    BY DEF Process, TestType, Phases, Reasons
  <2>2. e = [p EXCEPT !.latch = t.latch, !.result = result]
    BY DEF Ended
  <2>3. t.latch \in {"untried", "sent", "unavailable"}
    BY <1>1 DEF TestType
  <2> HIDE DEF p, e
  <2>4. QED
    BY <2>1, <2>2, <2>3 DEF TestType
<1> HIDE DEF e
<1>3. PhasesOf(e, k.estop, c)
  BY <1>1, <1>2 DEF PhasesOf
<1>4. LatchOf(e, k.estop, c)
  BY <1>1, <1>2 DEF LatchOf
<1>5. StatesOf(e, c)
  BY <1>1, <1>2 DEF StatesOf, Heard
<1>6. QED
  BY <1>1, <1>2, <1>3, <1>4, <1>5 DEF DriveOf, TypeOf, e

\* The queue of the emergency stop enters by what its requests ask for.
LEMMA QueueKeeps ==
  ASSUME NEW t, NEW k, NEW c, DriveOf(t, k, c), NEW l \in CallsType,
         DOMAIN l.estop = DOMAIN k.estop,
         \A i \in DOMAIN k.estop : l.estop[i].data = k.estop[i].data
  PROVE  DriveOf(t, l, c)
<1>1. ReleaseIn(l.estop) <=> ReleaseIn(k.estop)
  BY DEF ReleaseIn
<1>2. LatchIn(l.estop) <=> LatchIn(k.estop)
  BY DEF LatchIn
<1>3. PhasesOf(t, l.estop, c)
  BY <1>1 DEF DriveOf, PhasesOf
<1>4. LatchOf(t, l.estop, c)
  BY <1>1, <1>2 DEF DriveOf, LatchOf
<1>5. QED
  BY <1>3, <1>4 DEF DriveOf, TypeOf

\* A call that failed leads to the stop, to the latch, to the watch or out.
LEMMA FailedKeeps ==
  ASSUME NEW t, NEW k, NEW c, DriveOf(t, k, c), t.pc \in CallPcs,
         t.pc = "latch" => t.latch # "untried"
  PROVE  DriveOf(Failed(t), k, c)
<1> USE DEF CallPcs
<1>1. /\ t \in TestType /\ PhasesOf(t, k.estop, c) /\ LatchOf(t, k.estop, c) /\ StatesOf(t, c)
      /\ TypeOf(t, k, c) /\ MissionOf(c)
  BY DEF DriveOf, TypeOf
<1>2. CASE t.pc \in {"clear", "start"}
  <2>1. Failed(t) = Raised(t)
    BY <1>2 DEF Failed
  <2>2. QED
    BY <1>2, <2>1, RaisedKeeps
<1>3. CASE t.pc = "latch" /\ t.failing
  <2>1. Failed(t) = Ended(t, "failed")
    BY <1>3 DEF Failed
  <2>2. QED
    BY <1>3, <2>1, EndedKeeps
<1>4. ASSUME NEW next \in {"latch", "watch"},
             Failed(t) = [t EXCEPT !.pc = next, !.sent = FALSE],
             next = "latch" => t.pc = "stop", next = "watch" => t.pc = "latch" /\ ~ t.failing
      PROVE  DriveOf(Failed(t), k, c)
  <2> DEFINE f == Failed(t)
  <2>1. /\ f \in TestType /\ f.pc = next /\ f.failing = t.failing /\ ~ f.sent
        /\ f.latch = t.latch /\ f.result = t.result /\ f.reason = t.reason
        /\ f.interrupted = t.interrupted /\ f.lastState = t.lastState
        /\ f.sawNavigating = t.sawNavigating
    BY <1>1, <1>4 DEF TestType, Phases
  <2> HIDE DEF f
  <2>2. PhasesOf(f, k.estop, c) /\ LatchOf(f, k.estop, c)
    BY <1>1, <1>4, <2>1 DEF PhasesOf, LatchOf
  <2>3. StatesOf(f, c)
    BY <1>1, <2>1 DEF StatesOf, Heard
  <2>4. QED
    BY <1>1, <2>1, <2>2, <2>3 DEF DriveOf, TypeOf, f
<1>5. CASE t.pc = "stop"
  <2>1. Failed(t) = [t EXCEPT !.pc = "latch", !.sent = FALSE]
    BY <1>5 DEF Failed
  <2>2. QED
    BY <1>4, <1>5, <2>1
<1>6. CASE t.pc = "latch" /\ ~ t.failing
  <2>1. Failed(t) = [t EXCEPT !.pc = "watch", !.sent = FALSE]
    BY <1>6 DEF Failed
  <2>2. QED
    BY <1>4, <1>6, <2>1
<1>7. QED
  BY <1>2, <1>3, <1>5, <1>6

\* One that succeeded leads on, or where a failed one does.
LEMMA SucceededKeeps ==
  ASSUME NEW t, NEW k, NEW c, DriveOf(t, k, c), t.pc \in CallPcs,
         t.pc = "latch" => t.latch # "untried"
  PROVE  DriveOf(Succeeded(t), k, c)
<1> USE DEF CallPcs
<1>1. /\ t \in TestType /\ PhasesOf(t, k.estop, c) /\ LatchOf(t, k.estop, c) /\ StatesOf(t, c)
      /\ TypeOf(t, k, c) /\ MissionOf(c)
  BY DEF DriveOf, TypeOf
<1>2. CASE t.pc \notin {"clear", "start"}
  BY <1>2, FailedKeeps DEF Succeeded
<1>3. CASE t.pc \in {"clear", "start"}
  <2> DEFINE next == IF t.pc = "clear" THEN "start" ELSE "drive"
             f == Succeeded(t)
  <2>1. f = [t EXCEPT !.pc = next, !.sent = FALSE]
    BY <1>3 DEF Succeeded
  <2>2. /\ f \in TestType /\ f.pc = next /\ f.failing = t.failing /\ ~ f.sent
        /\ f.latch = t.latch /\ f.result = t.result /\ f.reason = t.reason
        /\ f.interrupted = t.interrupted /\ f.lastState = t.lastState
        /\ f.sawNavigating = t.sawNavigating
    BY <1>1, <2>1 DEF TestType, Phases
  <2>3. next \in {"start", "drive"}
    OBVIOUS
  <2> HIDE DEF f, next
  <2>4. PhasesOf(f, k.estop, c) /\ LatchOf(f, k.estop, c)
    BY <1>1, <1>3, <2>2, <2>3 DEF PhasesOf, LatchOf
  <2>5. StatesOf(f, c)
    BY <1>1, <2>2 DEF StatesOf, Heard
  <2>6. QED
    BY <1>1, <2>2, <2>4, <2>5 DEF DriveOf, TypeOf, f
<1>4. QED
  BY <1>2, <1>3

\* Before its stop the process has sent no latch.
LEMMA NoLatchYet ==
  ASSUME DriveInvariant, test.pc \notin {"stop", "latch", "watch", "ended"}
  PROVE  ~ LatchIn(calls.estop)
BY PartsAre DEF DriveOf, LatchOf

\* The process leads from phase to phase.
LEMMA PhasesKeepDrive ==
  ASSUME DriveInvariant,
         \/ Listens \/ PreflightEnds \/ Verifies \/ SetsSpeedLimits
         \/ TimeIsUp \/ Watches \/ WatchEnds \/ Interrupted
  PROVE  DriveInvariant'
<1>1. DriveOf(test, calls, car)
  BY PartsAre
<1>2. /\ TypeOf(test, calls, car) /\ PhasesOf(test, calls.estop, car)
      /\ LatchOf(test, calls.estop, car) /\ MissionOf(car) /\ StatesOf(test, car)
      /\ car \in CarType /\ calls \in CallsType /\ test \in TestType
  BY <1>1 DEF DriveOf, TypeOf
<1>3. CASE Listens
  <2>1. PICK heard \in AfterHearing : test' = heard.test /\ car' = heard.car
    BY <1>3 DEF Listens
  <2>2. calls' = calls
    BY <1>3 DEF Listens
  <2>3. QED
    BY <1>1, <2>1, <2>2, HearingKeeps, PartsAre
<1>4. ASSUME NEW next \in {"verify", "limits", "stop"}, NEW reason \in {test.reason, "timeout"},
             test' = [test EXCEPT !.pc = next, !.reason = reason],
             UNCHANGED <<calls, car>>,
             next = "verify" => test.pc = "preflight",
             next = "limits" => test.pc = "verify" /\ car.supervised,
             next = "stop" => test.pc = "drive"
      PROVE  DriveInvariant'
  <2>1. /\ test' \in TestType /\ test'.pc = next /\ test'.failing = test.failing
        /\ test'.sent = test.sent
        /\ test'.latch = test.latch /\ test'.result = test.result
        /\ test'.reason \in {test.reason, "timeout"}
        /\ test'.interrupted = test.interrupted /\ test'.lastState = test.lastState
        /\ test'.sawNavigating = test.sawNavigating
    <3>1. next \in Phases /\ reason \in Reasons
      BY <1>2 DEF TestType, Phases, CallPcs, Reasons
    <3>2. QED
      BY <1>2, <1>4, <3>1 DEF TestType
  <2>2. PhasesOf(test', calls.estop, car) /\ LatchOf(test', calls.estop, car)
    BY <1>2, <1>4, <2>1 DEF PhasesOf, LatchOf
  <2>3. StatesOf(test', car)
    BY <1>2, <2>1 DEF StatesOf, Heard
  <2>4. QED
    BY <1>2, <1>4, <2>1, <2>2, <2>3, PartsAre DEF DriveOf, TypeOf
<1>5. ASSUME test' = Raised(test), UNCHANGED <<calls, car>>, test.pc # "ended"
      PROVE  DriveInvariant'
  <2>1. test.pc \in {"preflight", "verify", "limits"} => ~ LatchIn(calls.estop)
    BY NoLatchYet
  <2>2. QED
    BY <1>1, <1>5, <2>1, RaisedKeeps, PartsAre
<1>6. CASE PreflightEnds
  <2>1. test.pc = "preflight" /\ UNCHANGED <<calls, car>>
    BY <1>6 DEF PreflightEnds, At
  <2>2. CASE test' = [test EXCEPT !.pc = "verify"]
    <3>1. test' = [test EXCEPT !.pc = "verify", !.reason = test.reason]
      BY <1>2, <2>2 DEF TestType
    <3>2. QED
      BY <1>4, <2>1, <3>1
  <2>3. QED
    BY <1>5, <1>6, <2>1, <2>2 DEF PreflightEnds
<1>7. CASE Verifies
  <2>1. test.pc = "verify" /\ UNCHANGED <<calls, car>>
    BY <1>7 DEF Verifies, At
  <2>2. CASE car.supervised /\ test' = [test EXCEPT !.pc = "limits"]
    <3>1. test' = [test EXCEPT !.pc = "limits", !.reason = test.reason]
      BY <1>2, <2>2 DEF TestType
    <3>2. QED
      BY <1>4, <2>1, <2>2, <3>1
  <2>3. QED
    BY <1>5, <1>7, <2>1, <2>2 DEF Verifies, RuntimeModeAccepts
<1>8. CASE TimeIsUp
  BY <1>4, <1>8 DEF TimeIsUp, Leaves, At
<1>9. CASE SetsSpeedLimits
  <2>1. PICK done \in SUBSET Servers :
          /\ test.pc = "limits" /\ calls' = calls /\ car' = [car EXCEPT !.limits = done]
          /\ \/ done = Servers /\ test' = [test EXCEPT !.pc = "clear"]
             \/ test' = Raised(test)
    BY <1>9 DEF SetsSpeedLimits, At
  <2>2. /\ car' \in CarType /\ car'.limits = done
        /\ car'.released = car.released /\ car'.supervised = car.supervised
        /\ car'.state = car.state /\ car'.mission = car.mission /\ car'.said = car.said
    BY <1>2, <2>1 DEF CarType
  <2>3. /\ car.supervised /\ ~ car.released /\ ~ ReleaseIn(calls.estop) /\ ~ LatchIn(calls.estop)
        /\ test.result # "passed" /\ test.latch = "untried" /\ ~ test.interrupted
    BY <1>2, <2>1, NoLatchYet DEF PhasesOf
  <2>4. PhasesOf(test, calls.estop, car') /\ LatchOf(test, calls.estop, car')
    BY <1>2, <2>1, <2>2, <2>3 DEF PhasesOf, LatchOf
  <2>5. MissionOf(car') /\ StatesOf(test, car')
    BY <1>2, <2>2, CarKeepsStates
  <2>6. DriveOf(test, calls, car')
    BY <1>2, <2>2, <2>4, <2>5 DEF DriveOf, TypeOf
  <2>7. CASE test' = Raised(test)
    BY <2>1, <2>3, <2>6, <2>7, RaisedKeeps, PartsAre
  <2>8. CASE done = Servers /\ test' = [test EXCEPT !.pc = "clear"]
    <3>1. /\ test' \in TestType /\ test'.pc = "clear" /\ test'.failing = test.failing
          /\ test'.sent = test.sent
          /\ test'.latch = test.latch /\ test'.result = test.result
          /\ test'.reason = test.reason
          /\ test'.interrupted = test.interrupted /\ test'.lastState = test.lastState
          /\ test'.sawNavigating = test.sawNavigating
      BY <1>2, <2>8 DEF TestType, Phases, CallPcs
    <3>2. PhasesOf(test', calls.estop, car') /\ LatchOf(test', calls.estop, car')
      BY <2>1, <2>2, <2>3, <2>4, <2>8, <3>1 DEF PhasesOf, LatchOf
    <3>3. StatesOf(test', car')
      BY <2>5, <3>1 DEF StatesOf, Heard
    <3>4. QED
      BY <1>2, <2>1, <2>2, <2>5, <3>1, <3>2, <3>3, PartsAre DEF DriveOf, TypeOf
  <2>9. QED
    BY <2>1, <2>7, <2>8
<1>10. CASE Watches
  <2>1. PICK heard \in AfterHearing :
          /\ test' = [heard.test EXCEPT !.nonzero = @ \/ heard.test.lastSpeed # "zero"]
          /\ car' = heard.car /\ calls' = calls
    BY <1>10 DEF Watches
  <2>2. DriveOf(heard.test, calls, heard.car)
    BY <1>1, HearingKeeps
  <2> DEFINE h == heard.test
  <2>3. h \in TestType
    BY <2>2 DEF DriveOf, TypeOf
  <2>4. /\ test' \in TestType /\ test'.pc = h.pc /\ test'.failing = h.failing
        /\ test'.sent = h.sent /\ test'.latch = h.latch /\ test'.result = h.result
        /\ test'.reason = h.reason /\ test'.interrupted = h.interrupted
        /\ test'.lastState = h.lastState /\ test'.sawNavigating = h.sawNavigating
    BY <2>1, <2>3 DEF TestType
  <2> HIDE DEF h
  <2>5. DriveOf(h, calls, car')
    BY <2>1, <2>2 DEF h
  <2>6. DriveOf(test', calls, car')
    BY <2>4, <2>5 DEF DriveOf, TypeOf, PhasesOf, LatchOf, StatesOf, Heard
  <2>7. QED
    BY <2>1, <2>6, PartsAre
<1>11. CASE WatchEnds
  <2>1. /\ test.pc = "watch" /\ UNCHANGED <<calls, car>>
        /\ test' = IF test.nonzero THEN Raised(test)
                   ELSE Ended(test, IF OutcomePassed(test.reason) THEN "passed" ELSE "failed")
    BY <1>11 DEF WatchEnds, At
  <2>2. CASE test.nonzero
    BY <1>5, <2>1, <2>2
  <2>3. CASE ~ test.nonzero
    <3> DEFINE result == IF OutcomePassed(test.reason) THEN "passed" ELSE "failed"
    <3>1. result = "passed" => test.reason = "mission_completed"
      BY DEF OutcomePassed
    <3>2. test.latch # "untried"
      BY <1>2, <2>1 DEF PhasesOf
    <3>3. result \in {"passed", "failed"} /\ test' = Ended(test, result)
      BY <2>1, <2>3
    <3> HIDE DEF result
    <3>4. DriveOf(test', calls, car)
      BY <1>1, <2>1, <3>1, <3>2, <3>3, EndedKeeps
    <3>5. QED
      BY <2>1, <3>4, PartsAre
  <2>4. QED
    BY <2>2, <2>3
<1>12. CASE Interrupted
  <2>1. test' = [Process("ended") EXCEPT !.interrupted = TRUE] /\ UNCHANGED <<calls, car>>
        /\ test.pc # "ended"
    BY <1>12 DEF Interrupted, At
  <2>2. /\ test' \in TestType /\ test'.pc = "ended" /\ ~ test'.failing
        /\ ~ test'.sent /\ test'.latch = "untried" /\ test'.result = "none"
        /\ test'.reason = "none" /\ test'.interrupted
        /\ test'.lastState = "" /\ ~ test'.sawNavigating
    BY <2>1 DEF Process, TestType, Phases, CallPcs, Reasons
  <2>3. PhasesOf(test', calls.estop, car)
    BY <1>2, <2>2 DEF PhasesOf
  <2>4. LatchOf(test', calls.estop, car)
    BY <1>2, <2>2 DEF LatchOf
  <2>5. StatesOf(test', car)
    BY <1>2, <2>2 DEF StatesOf, Heard
  <2>6. QED
    BY <1>2, <2>1, <2>2, <2>3, <2>4, <2>5, PartsAre DEF DriveOf, TypeOf
<1>13. QED
  BY <1>3, <1>6, <1>7, <1>8, <1>9, <1>10, <1>11, <1>12

\* A call is made, unless its service is not found.
LEMMA CallsKeepDrive ==
  ASSUME DriveInvariant, Calls
  PROVE  DriveInvariant'
<1>1. DriveOf(test, calls, car) /\ car' = car /\ test.pc \in CallPcs /\ ~ test.sent
  BY PartsAre DEF Calls
<1>2. /\ TypeOf(test, calls, car) /\ PhasesOf(test, calls.estop, car)
      /\ LatchOf(test, calls.estop, car) /\ MissionOf(car) /\ StatesOf(test, car)
      /\ car \in CarType /\ calls \in CallsType /\ test \in TestType
  BY <1>1 DEF DriveOf, TypeOf
<1>3. CASE /\ test' = [test EXCEPT !.sent = TRUE, !.latch = IF At("latch") THEN "sent" ELSE @]
           /\ calls' = [calls EXCEPT ![ServiceOf(test.pc)] =
                          Append(@, [awaited |-> TRUE, data |-> At("latch")]), !.answer = "none"]
  <2> DEFINE request == [awaited |-> TRUE, data |-> At("latch")]
             key == ServiceOf(test.pc)
  <2>1. /\ test' \in TestType /\ test'.pc = test.pc /\ test'.failing = test.failing /\ test'.sent
        /\ test'.latch = IF test.pc = "latch" THEN "sent" ELSE test.latch
        /\ test'.result = test.result /\ test'.reason = test.reason
        /\ test'.interrupted = test.interrupted /\ test'.lastState = test.lastState
        /\ test'.sawNavigating = test.sawNavigating
    BY <1>2, <1>3 DEF TestType, At
  <2>2. request \in Request /\ (request.data <=> test.pc = "latch")
    BY DEF Request, At
  <2>3. /\ key \in {"estop", "start", "stop"}
        /\ key = "estop" <=> test.pc \in {"clear", "latch"}
    BY <1>1 DEF ServiceOf, CallPcs
  <2> HIDE DEF request, key
  <2>4. /\ calls' \in CallsType
        /\ calls'.estop = IF key = "estop" THEN Append(calls.estop, request) ELSE calls.estop
    <3>1. calls' = [calls EXCEPT ![key] = Append(calls[key], request), !.answer = "none"]
      BY <1>3 DEF key, request
    <3>2. calls[key] \in Seq(Request)
      BY <1>2, <2>3 DEF CallsType
    <3>3. Append(calls[key], request) \in Seq(Request)
      BY <2>2, <3>2, AppendIs
    <3>4. QED
      BY <1>2, <2>3, <3>1, <3>3 DEF CallsType
  <2>5. StatesOf(test', car)
    BY <1>2, <2>1 DEF StatesOf, Heard
  <2>6. CASE key # "estop"
    <3>1. test.pc \in {"start", "stop"} /\ test'.latch = test.latch /\ calls'.estop = calls.estop
      BY <1>1, <2>1, <2>3, <2>4, <2>6 DEF CallPcs
    <3>2. PhasesOf(test', calls.estop, car) /\ LatchOf(test', calls.estop, car)
      BY <1>2, <2>1, <3>1 DEF PhasesOf, LatchOf
    <3>3. QED
      BY <1>1, <1>2, <2>1, <2>4, <2>5, <3>1, <3>2, PartsAre DEF DriveOf, TypeOf
  <2>7. CASE key = "estop"
    <3> DEFINE q == calls.estop
               r == Append(q, request)
    <3>1. q \in Seq(Request)
      BY <1>2 DEF CallsType
    <3>2. /\ Len(q) \in Nat /\ DOMAIN q = 1 .. Len(q) /\ r \in Seq(Request)
          /\ DOMAIN r = 1 .. Len(q) + 1
          /\ \A i \in DOMAIN q : i \in DOMAIN r /\ r[i] = q[i]
          /\ Len(q) + 1 \in DOMAIN r /\ r[Len(q) + 1] = request
          /\ \A i \in DOMAIN r : i \in DOMAIN q \/ i = Len(q) + 1
      BY <2>2, <3>1, AppendIs
    <3>3. PhasesOf(test, q, car) /\ LatchOf(test, q, car) /\ calls'.estop = r
      BY <1>2, <2>4, <2>7
    <3> HIDE DEF q, r
    <3>4. /\ ReleaseIn(r) <=> ReleaseIn(q) \/ test.pc # "latch"
          /\ LatchIn(r) <=> LatchIn(q) \/ test.pc = "latch"
      <4>1. ReleaseIn(r) <=> ReleaseIn(q) \/ test.pc # "latch"
        BY <2>2, <3>2 DEF ReleaseIn
      <4>2. LatchIn(r) <=> LatchIn(q) \/ test.pc = "latch"
        BY <2>2, <3>2 DEF LatchIn
      <4>3. QED
        BY <4>1, <4>2
    <3>5. test.pc \in {"clear", "latch"}
      BY <2>3, <2>7
    <3>6. PhasesOf(test', r, car)
      BY <2>1, <3>3, <3>4, <3>5 DEF PhasesOf
    <3>7. \A i, j \in DOMAIN r : i < j /\ r[i].data => r[j].data
      <4> SUFFICES ASSUME NEW i \in DOMAIN r, NEW j \in DOMAIN r, i < j, r[i].data PROVE r[j].data
        OBVIOUS
      <4>1. i \in DOMAIN q
        BY <3>2
      <4>2. CASE j \in DOMAIN q
        BY <3>2, <3>3, <4>1, <4>2 DEF LatchOf
      <4>3. CASE j = Len(q) + 1
        <5>1. LatchIn(q)
          BY <3>2, <4>1 DEF LatchIn
        <5>2. test.pc = "latch"
          BY <3>3, <3>5, <5>1 DEF LatchOf
        <5>3. QED
          BY <2>2, <3>2, <4>3, <5>2
      <4>4. QED
        BY <3>2, <4>2, <4>3
    <3>8. LatchOf(test', r, car)
      <4>1. LatchIn(r) => test'.pc \in {"stop", "latch", "watch", "ended"}
        BY <2>1, <3>3, <3>4 DEF LatchOf
      <4>2. test'.latch = "sent" => LatchIn(r) \/ (~ car.released /\ ~ ReleaseIn(r))
        BY <2>1, <3>3, <3>4, <3>5 DEF LatchOf, PhasesOf
      <4>3. QED
        BY <3>7, <4>1, <4>2 DEF LatchOf
    <3>9. QED
      BY <1>1, <1>2, <2>1, <2>4, <2>5, <3>3, <3>6, <3>8, PartsAre DEF DriveOf, TypeOf
  <2>8. QED
    BY <2>6, <2>7
<1>4. CASE /\ test' = Failed([test EXCEPT !.latch = IF At("latch") THEN "unavailable" ELSE @])
           /\ UNCHANGED calls
  <2> DEFINE t == [test EXCEPT !.latch = IF At("latch") THEN "unavailable" ELSE @]
  <2>1. /\ t \in TestType /\ t.pc = test.pc /\ t.failing = test.failing /\ ~ t.sent
        /\ t.latch = IF test.pc = "latch" THEN "unavailable" ELSE test.latch
        /\ t.result = test.result /\ t.reason = test.reason
        /\ t.interrupted = test.interrupted /\ t.lastState = test.lastState
        /\ t.sawNavigating = test.sawNavigating
    BY <1>1, <1>2 DEF TestType, At
  <2> HIDE DEF t
  <2>2. PhasesOf(t, calls.estop, car) /\ LatchOf(t, calls.estop, car)
    BY <1>2, <2>1 DEF PhasesOf, LatchOf
  <2>3. StatesOf(t, car)
    BY <1>2, <2>1 DEF StatesOf, Heard
  <2>4. DriveOf(t, calls, car) /\ t.pc \in CallPcs /\ (t.pc = "latch" => t.latch # "untried")
    BY <1>1, <1>2, <2>1, <2>2, <2>3 DEF DriveOf, TypeOf
  <2>5. DriveOf(Failed(t), calls, car)
    BY <2>4, FailedKeeps
  <2>6. QED
    BY <1>1, <1>4, <2>5, PartsAre DEF t
<1>5. QED
  BY <1>3, <1>4 DEF Calls

\* A call ends, with its answer or without.
LEMMA CallEndsKeepsDrive ==
  ASSUME DriveInvariant, CallEnds
  PROVE  DriveInvariant'
<1>1. DriveOf(test, calls, car) /\ car' = car /\ test.pc \in CallPcs /\ test.sent
  BY PartsAre DEF CallEnds
<1>2. /\ TypeOf(test, calls, car) /\ PhasesOf(test, calls.estop, car)
      /\ calls \in CallsType /\ test \in TestType
  BY <1>1 DEF DriveOf, TypeOf
<1>3. /\ calls' = [service \in DOMAIN calls |->
                     IF service = "answer" THEN "none" ELSE GivenUp(calls[service])]
      /\ test' = Succeeded(test) \/ test' = Failed(test)
  BY DEF CallEnds
<1>4. /\ \A q \in Seq(Request) : GivenUp(q) \in Seq(Request)
      /\ DOMAIN GivenUp(calls.estop) = DOMAIN calls.estop
      /\ \A i \in DOMAIN calls.estop : GivenUp(calls.estop)[i].data = calls.estop[i].data
  BY <1>2, GivenUpIs DEF CallsType
<1>5. calls' \in CallsType /\ calls'.estop = GivenUp(calls.estop)
  BY <1>2, <1>3, <1>4 DEF CallsType
<1>6. DriveOf(test, calls', car)
  BY <1>1, <1>4, <1>5, QueueKeeps
<1>7. test.pc = "latch" => test.latch # "untried"
  BY <1>1, <1>2 DEF PhasesOf
<1>8. DriveOf(test', calls', car)
  BY <1>1, <1>3, <1>6, <1>7, FailedKeeps, SucceededKeeps
<1>9. QED
  BY <1>1, <1>8, PartsAre

\* The first question that is answered yes is one of the five.
LEMMA FirstIs ==
  ASSUME NEW t, NEW watchdog \in BOOLEAN,
         SelectInSeq(Questions(t, watchdog), LAMBDA q : q[1]) # 0
  PROVE  LET reason == Questions(t, watchdog)[SelectInSeq(Questions(t, watchdog), LAMBDA q : q[1])][2]
         IN /\ reason \in Reasons
            /\ reason = "mission_completed" => t.lastState = "COMPLETED" /\ t.sawNavigating
<1> DEFINE all == Questions(t, watchdog)
           I == {i \in 1 .. Len(all) : all[i][1]}
           first == SelectInSeq(all, LAMBDA q : q[1])
<1>1. Len(all) = 5
  BY DEF Questions
<1>2. I \in SUBSET Nat /\ I \subseteq 1 .. 5
  BY <1>1
<1>3. first = IF I = {} THEN 0 ELSE Min(I)
  BY DEF SelectInSeq
<1>4. first \in I
  <2> HIDE DEF I, first
  <2>1. first # 0
    BY DEF first
  <2>2. QED
    BY <1>2, <1>3, <2>1, MinIsLeast
<1> DEFINE done == t.lastState = "COMPLETED"
           why == CompletionReason(t)
<1>5. /\ why \in {"mission_completed", "mission_completed_without_motion_proof"}
      /\ why = "mission_completed" => t.sawNavigating
  BY DEF CompletionReason
<1>6. first \in 1 .. 5 /\ all[first][1]
  BY <1>2, <1>4
<1>7. /\ all[1] = <<done, why>> /\ all[2][2] = "task_terminal" /\ all[3][2] = "watchdog"
      /\ all[4][2] = "safety_blocked" /\ all[5][2] = "ackermann_speed_limit"
  BY DEF Questions
<1> HIDE DEF all, first, done, why
<1>8. all[first][2] \in Reasons
      /\ (all[first][2] = "mission_completed" => first = 1 /\ all[1][2] = why)
  BY <1>5, <1>6, <1>7 DEF Reasons
<1>9. done \in BOOLEAN
  BY DEF done
<1>10. all[1][1] = done /\ all[1][2] = why
  BY <1>7
<1>11. all[first][2] = "mission_completed" => t.lastState = "COMPLETED" /\ t.sawNavigating
  BY <1>5, <1>6, <1>8, <1>10 DEF done
<1>12. QED
  BY <1>8, <1>11 DEF all, first

\* One round of the loop leaves it for a reason that holds.
LEMMA RoundsKeepDrive ==
  ASSUME DriveInvariant, Rounds
  PROVE  DriveInvariant'
<1>1. PICK heard \in AfterHearing, watchdog \in BOOLEAN :
        LET t == [heard.test EXCEPT !.sawNavigating = @ \/ heard.test.lastState = "NAVIGATING"]
            first == SelectInSeq(Questions(t, watchdog), LAMBDA q : q[1])
        IN /\ test' = IF first = 0 THEN t ELSE Leaves(t, Questions(t, watchdog)[first][2])
           /\ car' = heard.car
  BY DEF Rounds
<1>2. calls' = calls /\ test.pc = "drive"
  BY DEF Rounds, At
<1> DEFINE t == [heard.test EXCEPT !.sawNavigating = @ \/ heard.test.lastState = "NAVIGATING"]
           first == SelectInSeq(Questions(t, watchdog), LAMBDA q : q[1])
           reason == Questions(t, watchdog)[first][2]
           h == heard.test
           c == heard.car
<1>3. DriveOf(test, calls, car)
  BY PartsAre
<1>4. DriveOf(h, calls, c) /\ h.pc = "drive"
  BY <1>2, <1>3, HearingKeeps
<1>5. /\ h \in TestType /\ PhasesOf(h, calls.estop, c) /\ LatchOf(h, calls.estop, c)
      /\ StatesOf(h, c) /\ MissionOf(c) /\ TypeOf(h, calls, c)
  BY <1>4 DEF DriveOf, TypeOf
<1>6. /\ t \in TestType /\ t.pc = h.pc /\ t.failing = h.failing
      /\ t.sent = h.sent /\ t.latch = h.latch /\ t.result = h.result
      /\ t.reason = h.reason /\ t.interrupted = h.interrupted
      /\ t.lastState = h.lastState
      /\ t.sawNavigating <=> h.sawNavigating \/ h.lastState = "NAVIGATING"
  BY <1>5 DEF TestType
<1>7. first # 0 => /\ reason \in Reasons
                   /\ reason = "mission_completed" => t.lastState = "COMPLETED" /\ t.sawNavigating
  BY FirstIs
<1>8. /\ car' = c
      /\ test' = IF first = 0 THEN t ELSE [t EXCEPT !.pc = "stop", !.reason = reason]
  BY <1>1 DEF Leaves
<1> HIDE DEF h, c, t, first, reason
<1>9. StatesOf(t, c)
  BY <1>5, <1>6 DEF StatesOf, Heard
<1>10. PhasesOf(t, calls.estop, c) /\ LatchOf(t, calls.estop, c)
  BY <1>5, <1>6 DEF PhasesOf, LatchOf
<1>11. CASE first = 0
  BY <1>2, <1>5, <1>6, <1>8, <1>9, <1>10, <1>11, PartsAre DEF DriveOf, TypeOf
<1>12. CASE first # 0
  <2>1. /\ test' \in TestType /\ test'.pc = "stop" /\ test'.failing = t.failing
        /\ test'.sent = t.sent /\ test'.latch = t.latch /\ test'.result = t.result
        /\ test'.reason = reason /\ test'.interrupted = t.interrupted
        /\ test'.lastState = t.lastState /\ test'.sawNavigating = t.sawNavigating
    BY <1>6, <1>7, <1>8, <1>12 DEF TestType, Phases, CallPcs
  <2>2. PhasesOf(test', calls.estop, c) /\ LatchOf(test', calls.estop, c)
    BY <1>4, <1>6, <1>10, <2>1 DEF PhasesOf, LatchOf
  <2>3. StatesOf(test', c)
    BY <1>7, <1>9, <1>12, <2>1 DEF StatesOf, Heard
  <2>4. QED
    BY <1>2, <1>5, <1>8, <2>1, <2>2, <2>3, PartsAre DEF DriveOf, TypeOf
<1>13. QED
  BY <1>11, <1>12

\* Every step keeps the invariant.
LEMMA DriveStep ==
  ASSUME DriveInvariant, [ShortDriveNext]_shortDriveVars
  PROVE  DriveInvariant'
<1>1. CASE UNCHANGED shortDriveVars
  BY <1>1, PartsAre DEF shortDriveVars
<1>2. CASE CarNext
  BY <1>2, MissionKeepsDrive, WheelsKeepDrive, ServeEmergencyStopKeepsDrive,
     ServeStartKeepsDrive, ServeStopKeepsDrive DEF CarNext
<1>3. CASE TestNext
  BY <1>3, PhasesKeepDrive, CallsKeepDrive, CallEndsKeepsDrive, RoundsKeepDrive DEF TestNext
<1>4. QED
  BY <1>1, <1>2, <1>3 DEF ShortDriveNext

\* Process, calls and car agree in every state reached.
THEOREM DriveInvariantHolds == ShortDriveSpec => []DriveInvariant
<1>1. DriveInvariant /\ [ShortDriveNext]_shortDriveVars => DriveInvariant'
  BY DriveStep
<1>2. QED
  BY <1>1, DriveStarts, PTL DEF ShortDriveSpec

\* A release in force is watched over or on its way to the latch, however many requests
\* and states are under way (short_drive_test.py:339-360, 415-504, 546-554).
THEOREM AlwaysReleasedUnderWatch == ShortDriveSpec => []ReleasedOnlyUnderWatch
<1>1. DriveInvariant => ReleasedOnlyUnderWatch
  <2> SUFFICES ASSUME DriveInvariant, car.released PROVE ReleasedOnlyUnderWatch
    BY DEF ReleasedOnlyUnderWatch
  <2>1. PhasesOf(test, calls.estop, car) /\ LatchOf(test, calls.estop, car) /\ test \in TestType
    BY PartsAre DEF DriveOf, TypeOf
  <2>2. test.pc \in Phases /\ test.latch \in {"untried", "sent", "unavailable"}
    BY <2>1 DEF TestType
  <2>3. LatchIn(calls.estop) <=> LatchUnderWay
    BY DEF LatchIn, LatchUnderWay
  <2>4. car.supervised /\ car.limits = Servers /\ test.pc \notin {"preflight", "verify", "limits"}
    BY <2>1 DEF PhasesOf
  <2>5. test.pc \in {"watch", "ended"} => test.latch # "untried" \/ test.interrupted
    BY <2>1 DEF PhasesOf
  <2>6. test.latch = "sent" => LatchUnderWay
    BY <2>1, <2>3 DEF LatchOf
  <2>7. QED
    BY <2>2, <2>4, <2>5, <2>6 DEF ReleasedOnlyUnderWatch, Phases, CallPcs
<1>2. QED
  BY <1>1, DriveInvariantHolds, PTL

\* A test that passed saw its own mission complete under its limits, however late the
\* topics told of the one before (short_drive_test.py:50-52, 445-459, 505-509).
THEOREM PassIsAlwaysEarned == ShortDriveSpec => []PassIsEarned
<1>1. DriveInvariant => PassIsEarned
  BY DEF DriveInvariant, PhasesFollow, StatesFollow, PassIsEarned, IsOwn
<1>2. QED
  BY <1>1, DriveInvariantHolds, PTL
=============================================================================
