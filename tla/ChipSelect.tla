----------------------------- MODULE ChipSelect -----------------------------
(***************************************************************************)
(* The wires under the driver: the GPIO and SPI set-up of main(), the      *)
(* steps inside Sx1276::transfer() and hardware_reset(), the calls of      *)
(* linux_hal.cpp they make, and tools/sx1276_regversion.c on the same      *)
(* device.                                                                 *)
(*                                                                         *)
(* NSS is wired to the SPI controller or to a GPIO.  The controller        *)
(* selects the chip around each message, unless the spidev has SPI_NO_CS,  *)
(* a mode that the kernel keeps after the process has gone.  A GPIO keeps  *)
(* its level after the process has gone.  The chip takes the bytes clocked *)
(* while NSS is low for one command: what follows a message in the same    *)
(* frame is data to it, not a command.                                     *)
(***************************************************************************)
CONSTANTS
  Confs,   \* configurations: the pins that are not -1, of "nss", "reset", "dio0"
  Faults,  \* what fails: "pin" writes, "spi" calls, "raise" of NSS after a message
  Probes   \* sx1276-regversion is run, too

ASSUME ChipSelectAssumption ==
  /\ Confs \subseteq SUBSET {"nss", "reset", "dio0"}
  /\ Probes \in BOOLEAN

VARIABLES
  conf,      \* the configuration of the process; NSS is wired to a GPIO iff "nss" is in it
  at,        \* where the process is
  exported,  \* the pins in /sys/class/gpio
  reset,     \* RESET: "high", "low"
  frame,     \* the chip's frame: "none" (NSS is high), "empty", "used"
  mode,      \* of the spidev: "cs", "no_cs"
  checked,   \* the caller looks at the result of transfer()
  result,    \* of transfer() so far: "ok", "failed"
  heard,     \* history: what the chip made of the last message of transfer()
  excuse,    \* history: "ignored" if an ignored transfer() could not raise NSS
  probe      \* sx1276-regversion is between its ioctls and its message

pins == <<exported, reset, frame>>
call == <<checked, result, heard, excuse>>
vars == <<conf, at, pins, mode, call, probe>>

Init ==
  /\ conf \in Confs
  /\ at = "down" /\ exported = {} /\ reset = "high" /\ frame = "none"
  /\ mode \in {"cs", "no_cs"}   \* whatever used the device before
  /\ checked = TRUE /\ result = "failed" /\ heard = "nothing" /\ excuse = "none"
  /\ probe = FALSE

Uses(p) == p \in conf
Go(from, to) == at = from /\ at' = to

\* NSS falls, and rises.
Lower == frame' = IF frame = "none" THEN "empty" ELSE frame
Raise == frame' = "none" /\ excuse' = "none"

\* The process ends on an error; pins and kernel stay as they are.
Fail(fault) == fault \in Faults /\ at' = "down" /\ UNCHANGED <<pins, mode, call>>

same == UNCHANGED <<conf, probe>>

-----------------------------------------------------------------------------
(* Start-up: open_pin for each pin, the idle levels, the SPI device.       *)

Start ==
  /\ Go("down", "nss") /\ excuse' = "none"
  /\ conf' \in Confs /\ ("nss" \in conf' <=> "nss" \in conf)
  /\ UNCHANGED <<pins, mode, checked, result, heard, probe>>

\* Mutant: pins that are not configured are exported, too.
ExportAny(p) ==
  /\ at = p /\ p \notin exported
  /\ exported' = exported \union {IF Uses(p) THEN p ELSE "-1"}
  /\ UNCHANGED <<at, reset, frame, mode, call>> /\ same

\* An export that fails leaves no path, and open_pin fails with it or at the
\* write to direction.
Export(p) ==
  /\ at = p /\ Uses(p) /\ p \notin exported
  /\ \/ exported' = exported \union {p} /\ UNCHANGED <<at, reset, frame, mode, call>>
     \/ Fail("pin")
  /\ same

\* "out" makes a pin an output and drives it low.
SetDirection(p, next) ==
  /\ at = p /\ (Uses(p) => p \in exported)
  /\ \/ /\ at' = next
        /\ reset' = IF Uses(p) /\ p = "reset" THEN "low" ELSE reset
        /\ IF Uses(p) /\ p = "nss" THEN Lower ELSE UNCHANGED frame
        /\ UNCHANGED <<exported, mode, call>>
     \/ Uses(p) /\ Fail("pin")
  /\ same

OpenPins ==
  \/ \E p \in {"nss", "reset", "dio0"} : Export(p)
  \/ SetDirection("nss", "reset") \/ SetDirection("reset", "dio0")
  \/ SetDirection("dio0", "nss idle")

IdleHigh ==
  /\ at \in {"nss idle", "reset idle"}
  /\ \/ /\ Go("nss idle", "reset idle") /\ UNCHANGED reset
        /\ IF Uses("nss") THEN Raise ELSE UNCHANGED <<frame, excuse>>
        /\ UNCHANGED <<exported, mode, checked, result, heard>>
     \/ /\ Go("reset idle", "spi") /\ reset' = (IF Uses("reset") THEN "high" ELSE reset)
        /\ UNCHANGED <<exported, frame, mode, call>>
     \/ (IF at = "nss idle" THEN Uses("nss") ELSE Uses("reset")) /\ Fail("pin")
  /\ same

\* Mutant: the mode is written only to set SPI_NO_CS.
OpenSpiNeverClears ==
  /\ Go("spi", "reset low") /\ mode' = (IF Uses("nss") THEN "no_cs" ELSE mode)
  /\ UNCHANGED <<pins, call>> /\ same

\* The mode is written first; a later ioctl may still fail.
OpenSpi ==
  /\ at = "spi"
  /\ \/ /\ at' = "reset low" \/ (at' = "down" /\ "spi" \in Faults)
        /\ mode' = (IF Uses("nss") THEN "no_cs" ELSE "cs") /\ UNCHANGED <<pins, call>>
     \/ Fail("spi")
  /\ same

HardwareReset ==
  /\ at \in {"reset low", "reset high"}
  /\ \/ /\ \/ Go("reset low", "reset high") /\ reset' = (IF Uses("reset") THEN "low" ELSE reset)
           \/ Go("reset high", "call") /\ reset' = (IF Uses("reset") THEN "high" ELSE reset)
        /\ UNCHANGED <<exported, frame, mode, call>>
     \/ Uses("reset") /\ Fail("pin")
  /\ same

-----------------------------------------------------------------------------
(* transfer().                                                             *)

\* The driver makes its next call; clear_irq after a CRC error is the one
\* whose result it ignores.
Begin ==
  /\ Go("call", "select")
  /\ checked' \in BOOLEAN /\ result' = "failed" /\ heard' = "nothing"
  /\ UNCHANGED <<pins, mode, excuse>> /\ same

\* transfer() returns with a failure.
ReturnFailed == at' = IF checked THEN "down" ELSE "call"

Select ==
  /\ at = "select"
  /\ \/ /\ at' = "clock"
        /\ IF Uses("nss") THEN Lower ELSE UNCHANGED frame
        /\ UNCHANGED <<exported, reset, mode, call>>
     \/ /\ Uses("nss") /\ "pin" \in Faults /\ ReturnFailed
        /\ UNCHANGED <<pins, mode, call>>
  /\ same

\* What the chip makes of a message that is clocked now.
Meaning ==
  IF reset = "low" \/ (IF Uses("nss") THEN frame = "none" ELSE mode = "no_cs") THEN "nothing"
  ELSE IF frame = "used" THEN "data" ELSE "command"

\* A failed message may have been clocked or not.
Clock ==
  /\ Go("clock", "deselect")
  /\ result' \in {"ok"} \union (IF "spi" \in Faults THEN {"failed"} ELSE {})
  /\ \/ /\ heard' = Meaning
        /\ frame' = IF frame = "none" THEN frame ELSE "used"
     \/ result' = "failed" /\ UNCHANGED <<heard, frame>>
  /\ UNCHANGED <<exported, reset, mode, checked, excuse>> /\ same

\* Mutant: a failed message returns at once.
DeselectOnlyOk ==
  /\ at = "deselect"
  /\ IF result = "ok"
       THEN at' = "call" /\ (IF Uses("nss") THEN Raise ELSE UNCHANGED <<frame, excuse>>)
       ELSE ReturnFailed /\ UNCHANGED <<frame, excuse>>
  /\ UNCHANGED <<exported, reset, mode, checked, result, heard>> /\ same

Deselect ==
  /\ at = "deselect"
  /\ \/ /\ IF result = "ok" THEN at' = "call" ELSE ReturnFailed
        /\ IF Uses("nss") THEN Raise ELSE UNCHANGED <<frame, excuse>>
        /\ UNCHANGED result
     \/ /\ Uses("nss") /\ "raise" \in Faults
        /\ result' = "failed" /\ ReturnFailed /\ excuse' = IF checked THEN "none" ELSE "ignored"
        /\ UNCHANGED frame
  /\ UNCHANGED <<exported, reset, mode, checked, heard>> /\ same

-----------------------------------------------------------------------------
(* The end of the process, wherever it is, and sx1276-regversion.          *)

End ==
  /\ at # "down" /\ at' = "down"
  /\ UNCHANGED <<pins, mode, call>> /\ same

ProbeOpen ==
  /\ Probes /\ ~probe /\ probe' = TRUE /\ mode' = "cs"
  /\ UNCHANGED <<conf, at, pins, call>>

\* Its message is a frame of its own on the controller's NSS, and goes into
\* whatever frame a GPIO holds open.
ProbeRead ==
  /\ probe /\ probe' = FALSE
  /\ frame' = IF frame = "none" THEN frame ELSE "used"
  /\ UNCHANGED <<conf, at, exported, reset, mode, call>>

-----------------------------------------------------------------------------
Next ==
  \/ Start \/ OpenPins \/ IdleHigh \/ OpenSpi \/ HardwareReset
  \/ Begin \/ Select \/ Clock \/ Deselect
  \/ End \/ ProbeOpen \/ ProbeRead

Spec == Init /\ [][Next]_vars

-----------------------------------------------------------------------------
(* Properties.                                                             *)

Places ==
  {"down", "nss", "reset", "dio0", "nss idle", "reset idle", "spi", "reset low",
   "reset high", "call", "select", "clock", "deselect"}

\* Every variable keeps its type: pins and device are in a state the code knows.
TypeOK ==
  /\ conf \in Confs /\ at \in Places
  /\ exported \subseteq {"nss", "reset", "dio0"}
  /\ reset \in {"high", "low"} /\ frame \in {"none", "empty", "used"} /\ mode \in {"cs", "no_cs"}
  /\ checked \in BOOLEAN /\ result \in {"ok", "failed"} /\ heard \in {"nothing", "data", "command"}
  /\ excuse \in {"none", "ignored"} /\ probe \in BOOLEAN

\* Wherever the processes before ended, and whatever failed, a process with a
\* RESET pin finds the chip out of reset whenever its driver makes a call, and
\* any process finds it deselected: NSS is low only after a transfer() whose
\* failure the driver ignored.  Nothing is said of reset for a process without
\* that pin: it cannot raise what one that had it may have left low.
ReadyAtCall ==
  at = "call" =>
    /\ "reset" \in conf => reset = "high"
    /\ frame # "none" => excuse = "ignored"

Outcome ==
  IF at \in {"select", "clock", "deselect"} THEN "running"
  ELSE IF result = "ok" THEN "succeeded" ELSE "failed"

Executed == IF heard = "command" THEN 1 ELSE 0

Transfers == INSTANCE SpiTransfers WITH call <- Outcome, executed <- Executed

\* As long as NSS can be raised and nobody else uses the device, transfer()
\* is what the driver takes it for.
TransfersAreAtomic == Transfers!Spec
=============================================================================
