---------------------------- MODULE MCNavigator ----------------------------
(* Model values and bounds for the runs of Navigator. *)
EXTENDS Navigator

\* Every fault at once.
AllFaults == FaultKinds
=============================================================================
