-------------------------- MODULE FirmwareUpgrade --------------------------
(***************************************************************************)
(* What an over-the-air upgrade promises, with no HTTP, files or child     *)
(* processes in sight: the firmware changes only to an image that was      *)
(* validated and then accepted for flashing, and while one image is        *)
(* accepted no other is.                                                   *)
(***************************************************************************)
CONSTANTS
  Images,   \* the firmware images
  Valid     \* the images that pass validation

VARIABLES
  accepted,  \* the images accepted for flashing: none or one
  firmware   \* the image the device runs

Init == accepted = {} /\ firmware \in Images

Accept ==
  /\ accepted = {}
  /\ \E i \in Valid : accepted' = {i}
  /\ UNCHANGED firmware

Flash ==
  /\ firmware' \in accepted
  /\ accepted' = {}

Abandon == accepted' = {} /\ UNCHANGED firmware

Next == Accept \/ Flash \/ Abandon

Spec == Init /\ [][Next]_<<accepted, firmware>>
=============================================================================
