----------------------------- MODULE MotionGate -----------------------------
(***************************************************************************)
(* What the direction guard promises to the rest of the car, without       *)
(* saying how: a gate between the navigation stack and the wheels.  It is  *)
(* granted to one identity at a time, to each identity at most once; it    *)
(* opens only for the identity it is granted to; motion passes only while  *)
(* it is open; and a fault keeps it shut until somebody closes it.         *)
(***************************************************************************)
CONSTANTS Identities, Nobody

VARIABLES
  gate,      \* "Stopped", "Prepared", "Active" or "Faulted"
  holder,    \* the identity the gate is granted to, or Nobody
  granted,   \* every identity it was ever granted to
  flowing    \* TRUE iff the last step let a motion command through

gateVars == <<gate, holder, granted, flowing>>

Init ==
  /\ gate = "Stopped" /\ holder = Nobody
  /\ granted = {}
  /\ flowing = FALSE

Grant(id) ==
  /\ gate = "Stopped" /\ id \notin granted
  /\ gate' = "Prepared" /\ holder' = id
  /\ granted' = granted \cup {id}
  /\ flowing' = FALSE

Open ==
  /\ gate = "Prepared" /\ gate' = "Active"
  /\ flowing' \in BOOLEAN
  /\ UNCHANGED <<holder, granted>>

Pass == gate = "Active" /\ flowing' = TRUE /\ UNCHANGED <<gate, holder, granted>>

Hold == flowing' = FALSE /\ UNCHANGED <<gate, holder, granted>>

Shut(newGate) ==
  /\ gate' = newGate /\ holder' = Nobody
  /\ flowing' = FALSE
  /\ UNCHANGED granted

Next ==
  \/ \E id \in Identities : Grant(id)
  \/ Open \/ Pass \/ Hold
  \/ Shut("Stopped") \/ Shut("Faulted")

Spec == Init /\ [][Next]_gateVars
=============================================================================
