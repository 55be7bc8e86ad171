---------------------------- MODULE MCOtaUpdate ----------------------------
(* Values of the constants of OtaUpdate for TLC. *)
EXTENDS OtaUpdate

MCImages == {"current", "next", "broken"}
MCValid == {"current", "next"}
=============================================================================
