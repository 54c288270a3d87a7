------------------------------ MODULE MCSimTrial ------------------------------
(* Two segments, the first with a point on the way; two monitor statuses. *)
EXTENDS SimTrial

Goal(id, task, profile, locked) == [id |-> id, task |-> task, profile |-> profile, locked |-> locked]

MCSegments ==
  <<[id |-> "out", goals |-> <<Goal("via_1", "via", "standard", FALSE), Goal("c1", "nav", "precise", TRUE)>>],
    [id |-> "back", goals |-> <<Goal("p", "return", "standard", FALSE)>>]>>

MCMonitorStatuses == {[ready |-> TRUE, checks |-> {"scan", "local"}],
                      [ready |-> FALSE, checks |-> {"scan"}]}
MCFaults == {"params", "failed", "services", "manager", "state", "route", "servers",
             "transport", "goal", "bond"}
=============================================================================
