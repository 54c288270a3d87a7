------------------------------ MODULE MCMission ------------------------------
(* Routes for the runs of Mission. *)
EXTENDS Mission

QrThenReturn == <<"qr", "return">>
VlmOnly      == <<"vlm">>
=============================================================================
