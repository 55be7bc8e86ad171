-------------------------- MODULE ChipSelectProofs --------------------------
(***************************************************************************)
(* Why each process finds the chip deselected and out of reset, and when   *)
(* transfer() is the one step that the driver takes it for: for every set  *)
(* of configurations.                                                      *)
(***************************************************************************)
EXTENDS ChipSelect, TLAPS

-----------------------------------------------------------------------------
(* Types.                                                                  *)

LEMMA InitTypes == ChipSelectAssumption /\ Init => TypeOK
BY DEF Init, TypeOK, Places, ChipSelectAssumption

LEMMA StepTypes == TypeOK /\ [Next]_vars => TypeOK'
<1> SUFFICES ASSUME TypeOK, [Next]_vars PROVE TypeOK'
  OBVIOUS
<1> USE DEF TypeOK, Places, pins, call, same, Go, Fail, Lower, Raise, ReturnFailed
<1>1. CASE Start
  BY <1>1 DEF Start
<1>2. CASE OpenPins
  <2>1. ASSUME NEW p \in {"nss", "reset", "dio0"}, Export(p) PROVE TypeOK'
    BY <2>1 DEF Export
  <2>2. ASSUME NEW p \in {"nss", "reset", "dio0"},
               NEW next \in {"reset", "dio0", "nss idle"}, SetDirection(p, next)
        PROVE  TypeOK'
    BY <2>2 DEF SetDirection
  <2> QED
    BY <1>2, <2>1, <2>2 DEF OpenPins
<1>3. CASE IdleHigh
  BY <1>3 DEF IdleHigh
<1>4. CASE OpenSpi
  BY <1>4 DEF OpenSpi
<1>5. CASE HardwareReset
  BY <1>5 DEF HardwareReset
<1>6. CASE Begin
  BY <1>6 DEF Begin
<1>7. CASE Select
  BY <1>7 DEF Select
<1>8. CASE Clock
  BY <1>8 DEF Clock, Meaning
<1>9. CASE Deselect
  BY <1>9 DEF Deselect
<1>10. CASE End
  BY <1>10 DEF End
<1>11. CASE ProbeOpen
  BY <1>11 DEF ProbeOpen
<1>12. CASE ProbeRead
  BY <1>12 DEF ProbeRead
<1>13. CASE UNCHANGED vars
  <2>1. UNCHANGED <<conf, at, exported, reset, frame, mode, checked, result, heard, excuse, probe>>
    BY <1>13 DEF vars
  <2>2. checked' \in BOOLEAN /\ probe' \in BOOLEAN
    BY <2>1, Zenon
  <2> QED
    BY <2>1, <2>2
<1> QED
  BY <1>1, <1>2, <1>3, <1>4, <1>5, <1>6, <1>7, <1>8, <1>9, <1>10, <1>11, <1>12, <1>13 DEF Next

\* Every variable keeps its type, for every set of configurations.
THEOREM TypeCorrect == Spec => []TypeOK
BY InitTypes, StepTypes, ChipSelectAssumption, PTL DEF Spec

-----------------------------------------------------------------------------
(* Between the idle levels and a call nothing lowers a pin but the pulse    *)
(* of RESET; in a call NSS falls and rises.                                 *)

Released ==
  /\ at \in {"spi", "reset low", "call", "select", "clock", "deselect"} /\ Uses("reset")
       => reset = "high"
  /\ at \in {"reset idle", "spi", "reset low", "reset high", "call", "select"}
       => frame = "none" \/ excuse = "ignored"
  /\ ~Uses("nss") => frame = "none"

LEMMA StepReleased == TypeOK /\ Released /\ [Next]_vars => Released'
<1> SUFFICES ASSUME TypeOK, Released, [Next]_vars PROVE Released'
  OBVIOUS
<1> USE DEF Released, Uses, pins, call, same, Go, Fail, Lower, Raise, ReturnFailed
<1>1. CASE Start
  BY <1>1 DEF Start
<1>2. CASE OpenPins
  <2>1. ASSUME NEW p \in {"nss", "reset", "dio0"}, Export(p) PROVE Released'
    BY <2>1 DEF Export
  <2>2. ASSUME NEW p \in {"nss", "reset", "dio0"},
               NEW next \in {"reset", "dio0", "nss idle"}, SetDirection(p, next)
        PROVE  Released'
    BY <2>2 DEF SetDirection
  <2> QED
    BY <1>2, <2>1, <2>2 DEF OpenPins
<1>3. CASE IdleHigh
  BY <1>3 DEF IdleHigh
<1>4. CASE OpenSpi
  BY <1>4 DEF OpenSpi
<1>5. CASE HardwareReset
  BY <1>5 DEF HardwareReset
<1>6. CASE Begin
  BY <1>6 DEF Begin
<1>7. CASE Select
  BY <1>7 DEF Select
<1>8. CASE Clock
  BY <1>8 DEF Clock, Meaning
<1>9. CASE Deselect
  BY <1>9 DEF Deselect
<1>10. CASE End
  BY <1>10 DEF End
<1>11. CASE ProbeOpen
  BY <1>11 DEF ProbeOpen
<1>12. CASE ProbeRead
  BY <1>12 DEF ProbeRead
<1>13. CASE UNCHANGED vars
  BY <1>13 DEF vars
<1> QED
  BY <1>1, <1>2, <1>3, <1>4, <1>5, <1>6, <1>7, <1>8, <1>9, <1>10, <1>11, <1>12, <1>13 DEF Next

LEMMA AlwaysReleased == Spec => [](TypeOK /\ Released)
<1>1. Init => TypeOK /\ Released
  BY InitTypes, ChipSelectAssumption DEF Init, Released, pins, call
<1>2. TypeOK /\ Released /\ [Next]_vars => (TypeOK /\ Released)'
  BY StepTypes, StepReleased
<1> QED
  BY <1>1, <1>2, PTL DEF Spec

\* At every call the chip is out of reset, and deselected unless the driver
\* ignored a failure: whatever failed, crashed or used the device before.
THEOREM ReadyCorrect == Spec => []ReadyAtCall
<1>1. Released => ReadyAtCall
  BY DEF Released, ReadyAtCall, Uses
<1> QED
  BY <1>1, AlwaysReleased, PTL

-----------------------------------------------------------------------------
(* The refinement.                                                         *)

\* What it takes: RESET is configured, NSS can be raised, and nobody else
\* uses the device.
Undisturbed ==
  /\ \A c \in Confs : "reset" \in c
  /\ "raise" \notin Faults
  /\ ~Probes

\* How far the running call has come, and that nothing is in its way.
Clocked ==
  /\ excuse = "none" /\ ~probe
  /\ at \in {"reset low", "reset high", "call", "select", "clock", "deselect"}
       => mode = IF Uses("nss") THEN "no_cs" ELSE "cs"
  /\ at \in {"select", "clock"} => result = "failed" /\ heard = "nothing"
  /\ at = "clock" => frame = IF Uses("nss") THEN "empty" ELSE "none"
  /\ result = "ok" => heard = "command"
  /\ heard # "data"

CInv == TypeOK /\ Released /\ Clocked

LEMMA ClockMeans == ASSUME Undisturbed, CInv, Clock PROVE Meaning = "command"
<1>1. reset = "high"
  BY DEF Undisturbed, CInv, TypeOK, Released, Clock, Go, Uses
<1> QED
  BY <1>1 DEF CInv, Clocked, Clock, Go, Meaning

LEMMA StepClocked == ASSUME Undisturbed, CInv, [Next]_vars PROVE Clocked'
<1> USE DEF CInv, Released, Clocked, Uses, pins, call, same, Go, Fail, Lower, Raise, ReturnFailed,
            Undisturbed
<1>1. CASE Start
  BY <1>1 DEF Start
<1>2. CASE OpenPins
  <2>1. ASSUME NEW p \in {"nss", "reset", "dio0"}, Export(p) PROVE Clocked'
    BY <2>1 DEF Export
  <2>2. ASSUME NEW p \in {"nss", "reset", "dio0"},
               NEW next \in {"reset", "dio0", "nss idle"}, SetDirection(p, next)
        PROVE  Clocked'
    BY <2>2 DEF SetDirection
  <2> QED
    BY <1>2, <2>1, <2>2 DEF OpenPins
<1>3. CASE IdleHigh
  BY <1>3 DEF IdleHigh
<1>4. CASE OpenSpi
  BY <1>4 DEF OpenSpi
<1>5. CASE HardwareReset
  BY <1>5 DEF HardwareReset
<1>6. CASE Begin
  BY <1>6 DEF Begin
<1>7. CASE Select
  BY <1>7 DEF Select
<1>8. CASE Clock
  BY <1>8, ClockMeans DEF Clock
<1>9. CASE Deselect
  BY <1>9 DEF Deselect
<1>10. CASE End
  BY <1>10 DEF End
<1>11. CASE ProbeOpen
  BY <1>11 DEF ProbeOpen
<1>12. CASE ProbeRead
  BY <1>12 DEF ProbeRead
<1>13. CASE UNCHANGED vars
  BY <1>13 DEF vars
<1> QED
  BY <1>1, <1>2, <1>3, <1>4, <1>5, <1>6, <1>7, <1>8, <1>9, <1>10, <1>11, <1>12, <1>13 DEF Next

LEMMA TransferStep ==
  ASSUME Undisturbed, CInv, [Next]_vars
  PROVE  [Transfers!Next]_<<Outcome, Executed>>
<1> DEFINE Goal == [Transfers!Next]_<<Outcome, Executed>>
<1> USE DEF CInv, Released, Clocked, Uses, pins, call, same, Go, Fail, Raise, ReturnFailed, Undisturbed,
            Outcome, Executed, Transfers!Next
<1>1. CASE Start
  BY <1>1 DEF Start
<1>2. CASE OpenPins
  <2>1. ASSUME NEW p \in {"nss", "reset", "dio0"}, Export(p) PROVE Goal
    BY <2>1 DEF Export
  <2>2. ASSUME NEW p \in {"nss", "reset", "dio0"},
               NEW next \in {"reset", "dio0", "nss idle"}, SetDirection(p, next)
        PROVE  Goal
    BY <2>2 DEF SetDirection
  <2> QED
    BY <1>2, <2>1, <2>2 DEF OpenPins
<1>3. CASE IdleHigh
  BY <1>3 DEF IdleHigh
<1>4. CASE OpenSpi
  BY <1>4 DEF OpenSpi
<1>5. CASE HardwareReset
  BY <1>5 DEF HardwareReset
<1>6. CASE Begin
  BY <1>6 DEF Begin, Transfers!Begin
<1>7. CASE Select
  BY <1>7 DEF Select, Transfers!Fail
<1>8. CASE Clock
  BY <1>8, ClockMeans DEF Clock, Transfers!Execute
<1>9. CASE Deselect
  BY <1>9 DEF Deselect, Transfers!Succeed, Transfers!Fail
<1>10. CASE End
  <2>1. at' = "down" /\ UNCHANGED <<result, heard>>
    BY <1>10 DEF End
  <2>2. CASE at \in {"select", "clock"}
    BY <2>1, <2>2 DEF Transfers!Fail
  <2>3. CASE at = "deselect" /\ result = "failed"
    BY <2>1, <2>3 DEF Transfers!Fail
  <2>4. CASE at = "deselect" /\ result = "ok"
    BY <2>1, <2>4 DEF Transfers!Succeed
  <2>5. CASE at \notin {"select", "clock", "deselect"}
    BY <2>1, <2>5
  <2> QED
    BY <2>2, <2>3, <2>4, <2>5 DEF TypeOK
<1>11. CASE ProbeOpen \/ ProbeRead
  BY <1>11 DEF ProbeOpen, ProbeRead
<1>12. CASE UNCHANGED vars
  BY <1>12 DEF vars
<1> QED
  BY <1>1, <1>2, <1>3, <1>4, <1>5, <1>6, <1>7, <1>8, <1>9, <1>10, <1>11, <1>12 DEF Next

\* With RESET configured, NSS that can be raised and the device to itself, a
\* call of transfer() is one command to the chip, executed within the call if
\* the call succeeds, at most once if it does not.
THEOREM TransferRefinement == ASSUME Undisturbed PROVE Spec => TransfersAreAtomic
<1>1. Init => Clocked /\ Transfers!Init
  BY DEF Init, Clocked, pins, call, Transfers!Init, Outcome, Executed
<1>2. TypeOK /\ Released /\ Clocked /\ [Next]_vars => Clocked'
  BY StepClocked DEF CInv
<1>3. TypeOK /\ Released /\ Clocked /\ [Next]_vars
      => [Transfers!Next]_<<Outcome, Executed>>
  BY TransferStep DEF CInv
<1> QED
  BY <1>1, <1>2, <1>3, AlwaysReleased, PTL DEF Spec, TransfersAreAtomic, Transfers!Spec
=============================================================================
