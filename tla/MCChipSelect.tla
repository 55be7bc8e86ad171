---------------------------- MODULE MCChipSelect ----------------------------
(* Values of the constants of ChipSelect for TLC. *)
EXTENDS ChipSelect

AllConfs == SUBSET {"nss", "reset", "dio0"}

\* A board whose RESET is wired to a GPIO, and configured.
ResetConfs == {c \in AllConfs : "reset" \in c}
=============================================================================
