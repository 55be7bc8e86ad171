------------------------------- MODULE Sx1276 -------------------------------
(***************************************************************************)
(* The driver class Sx1276 of src/src/sx1276.cpp, one action per SPI       *)
(* transfer.  A call is started by setting step to its first transfer and  *)
(* has returned when step = "ret"; ok is its result.  Between two          *)
(* transfers the chip may receive a frame or finish a transmission, which  *)
(* is where this driver can go wrong.                                      *)
(*                                                                         *)
(* A transfer that fails either did not happen (the NSS line could not be  *)
(* lowered, or the ioctl failed) or happened and only its NSS release      *)
(* failed; the caller cannot tell.                                         *)
(***************************************************************************)
EXTENDS Sx1276Chip

CONSTANT
  Faults   \* transfers may fail

ASSUME FaultsAssumption == Faults \in BOOLEAN

VARIABLES
  step,     \* the next transfer of the running call, or "ret"
  ok,       \* the result of the call
  seen,     \* the interrupt flags the call has read (irq in the source)
  rcv,      \* what receive_packet has read so far, and whether it has a packet
  payload,  \* the argument of transmit_packet
  expired,  \* hal_millis() has reached transmit_packet's deadline
  mark      \* history: the frames heard when receive_packet read the flags

locals == <<seen, rcv, payload, expired, mark>>
driver == <<step, ok, locals>>

Nothing == [slot |-> 0, len |-> Garbage, snr |-> Garbage, rssi |-> Garbage,
            data |-> Garbage, clean |-> FALSE, got |-> FALSE]
NoPayload == [data |-> Garbage, len |-> Garbage, fits |-> FALSE]

DriverInit ==
  /\ step = "ret" /\ ok = TRUE /\ seen = {} /\ mark = 0
  /\ rcv = Nothing /\ payload = NoPayload /\ expired = FALSE

-----------------------------------------------------------------------------
(* transfer(), read_reg() and write_reg(): the transfer at step l takes    *)
(* effect and the call goes on at n, or it returns false.                  *)

Goto(n) == step' = n /\ UNCHANGED ok
Fail == step' = "ret" /\ ok' = FALSE

Transfer(l, n) ==
  /\ step = l
  /\ Goto(n) \/ (Faults /\ Fail)

Write(l, n, effect) ==
  /\ Transfer(l, n)
  /\ effect
  /\ UNCHANGED locals

Read(l, n, r) ==
  /\ Transfer(l, n)
  /\ rcv' = r
  /\ UNCHANGED <<chip, seen, payload, expired, mark>>

\* The transfer did not happen.  receive_packet alone ignores that, when it
\* clears the flags of a frame with a CRC error.
TransferLost ==
  /\ Faults
  /\ step \notin {"ret", "t_size", "t_wait"}
  /\ step' = "ret" /\ ok' = (step = "p_crc")
  /\ UNCHANGED <<chip, locals>>

-----------------------------------------------------------------------------
HardwareReset == Write("reset", "ret", ResetChip)

\* main's own read of RegVersion; a value other than 0x12 is a failure.
ReadVersion == Write("version", "ret", UNCHANGED chip)

\* Mutant: the modem registers are left as they were.
BeginLoraNoModem ==
  \/ Write("b_sleep", "b_version", Sleep)
  \/ Write("b_version", "b_stdby", UNCHANGED chip)
  \/ Write("b_stdby", "ret", SetMode("STDBY"))

\* A configuration that set_modem_config rejects fails at b_modem.
BeginLora ==
  \/ Write("b_sleep", "b_version", Sleep)
  \/ Write("b_version", "b_modem", UNCHANGED chip)
  \/ Write("b_modem", "b_stdby", SetModem)
  \/ Write("b_stdby", "ret", SetMode("STDBY"))

\* Mutant: DIO0 stays on TxDone.
RxContinuousNoDio ==
  \/ Write("r_stdby", "r_clear", SetMode("STDBY"))
  \/ Write("r_clear", "r_ptr", ClearIrq(Flags))
  \/ Write("r_ptr", "r_mode", SetPtr(0))
  \/ Write("r_mode", "ret", SetMode("RXCONT"))

RxContinuous ==
  \/ Write("r_stdby", "r_dio", SetMode("STDBY"))
  \/ Write("r_dio", "r_clear", SetDio("RX_DONE"))
  \/ Write("r_clear", "r_ptr", ClearIrq(Flags))
  \/ Write("r_ptr", "r_mode", SetPtr(0))
  \/ Write("r_mode", "ret", SetMode("RXCONT"))

-----------------------------------------------------------------------------
(* receive_packet.                                                         *)

\* Mutant: the CRC flag is not looked at.
ReadFlagsNoCrc ==
  /\ step = "p_irq"
  /\ \/ /\ Goto(IF "RX_DONE" \in irq THEN "p_addr" ELSE "ret")
        /\ seen' = irq
        /\ mark' = Len(heard)
     \/ Faults /\ Fail /\ UNCHANGED <<seen, mark>>
  /\ rcv' = Nothing
  /\ UNCHANGED <<chip, payload, expired>>

ReadFlags ==
  /\ step = "p_irq"
  /\ \/ /\ Goto(IF "CRC_ERROR" \in irq THEN "p_crc"
                ELSE IF "RX_DONE" \in irq THEN "p_addr" ELSE "ret")
        /\ seen' = irq
        /\ mark' = Len(heard)
     \/ Faults /\ Fail /\ UNCHANGED <<seen, mark>>
  /\ rcv' = Nothing
  /\ UNCHANGED <<chip, payload, expired>>

\* Mutant: a frame with a CRC error is a failure of the receiver.
DropBadFrameFails ==
  /\ step = "p_crc"
  /\ Fail
  /\ ClearIrq(seen)
  /\ UNCHANGED locals

\* The result of this write is not looked at.
DropBadFrame ==
  /\ step = "p_crc"
  /\ step' = "ret"
  /\ ClearIrq(seen)
  /\ UNCHANGED <<ok, locals>>

\* Mutant: the FIFO is read from the end of the packet.
ReadPacketFromEnd ==
  \/ Read("p_addr", "p_len", [rcv EXCEPT !.slot = rx.slot])
  \/ Read("p_len", "p_snr", [rcv EXCEPT !.len = rx.id])
  \/ Read("p_snr", "p_rssi", [rcv EXCEPT !.snr = rx.id])
  \/ Read("p_rssi", "p_ptr", [rcv EXCEPT !.rssi = rx.id])
  \/ Write("p_ptr", "p_fifo", SetPtr(rcv.slot + 1))

ReadPacket ==
  \/ Read("p_addr", "p_len", [rcv EXCEPT !.slot = rx.slot])
  \/ Read("p_len", "p_snr", [rcv EXCEPT !.len = rx.id])
  \/ Read("p_snr", "p_rssi", [rcv EXCEPT !.snr = rx.id])
  \/ Read("p_rssi", "p_ptr", [rcv EXCEPT !.rssi = rx.id])
  \/ Write("p_ptr", "p_fifo", SetPtr(rcv.slot))

ReadPayload ==
  /\ Transfer("p_fifo", "p_clear")
  /\ ReadFifo(Empty(rcv.len))
  /\ rcv' = [rcv EXCEPT !.data = IF Empty(rcv.len) THEN Garbage ELSE fifo[ptr],
                         !.clean = (Len(heard) = mark)]
  /\ UNCHANGED <<seen, payload, expired, mark>>

\* Mutant: the flags of a packet that was read are not cleared.
AckPacketNoClear ==
  /\ step = "p_clear" /\ step' = "ret"
  /\ UNCHANGED ok /\ rcv' = [rcv EXCEPT !.got = TRUE]
  /\ UNCHANGED <<chip, seen, payload, expired, mark>>

AckPacket ==
  /\ step = "p_clear" /\ step' = "ret"
  /\ \/ UNCHANGED ok /\ rcv' = [rcv EXCEPT !.got = TRUE]
     \/ Faults /\ ok' = FALSE /\ UNCHANGED rcv
  /\ ClearIrq(seen)
  /\ UNCHANGED <<seen, payload, expired, mark>>

ReceivePacket == ReadFlags \/ DropBadFrame \/ ReadPacket \/ ReadPayload \/ AckPacket

-----------------------------------------------------------------------------
(* transmit_packet, which ends with a call of rx_continuous.               *)

CheckSize ==
  /\ step = "t_size"
  /\ IF payload.fits THEN Goto("t_stdby") ELSE Fail
  /\ expired' = FALSE
  /\ UNCHANGED <<chip, seen, rcv, payload, mark>>

\* Mutant: the FIFO is written wherever the last read left its pointer.
LoadPacketNoPtr ==
  \/ Write("t_stdby", "t_dio", SetMode("STDBY"))
  \/ Write("t_dio", "t_clear", SetDio("TX_DONE"))
  \/ Write("t_clear", "t_fifo", ClearIrq(Flags))
  \/ Write("t_fifo", "t_len", WriteFifo(payload.data))
  \/ Write("t_len", "t_mode", SetLength(payload.len))
  \/ Write("t_mode", "t_wait", SetMode("TX"))

LoadPacket ==
  \/ Write("t_stdby", "t_dio", SetMode("STDBY"))
  \/ Write("t_dio", "t_clear", SetDio("TX_DONE"))
  \/ Write("t_clear", "t_ptr", ClearIrq(Flags))
  \/ Write("t_ptr", "t_fifo", SetPtr(0))
  \/ Write("t_fifo", "t_len", WriteFifo(payload.data))
  \/ Write("t_len", "t_mode", SetLength(payload.len))
  \/ Write("t_mode", "t_wait", SetMode("TX"))

\* Mutant: the driver waits for TxDone for ever.
CheckDeadlineNever ==
  /\ step = "t_wait"
  /\ Goto("t_poll")
  /\ UNCHANGED <<chip, locals>>

\* while (hal_millis() < deadline)
CheckDeadline ==
  /\ step = "t_wait"
  /\ IF expired THEN Fail ELSE Goto("t_poll")
  /\ UNCHANGED <<chip, locals>>

\* Mutant: the poll goes on only when the transmission has ended.
PollTxDoneBlocks ==
  /\ step = "t_poll" /\ "TX_DONE" \in irq
  /\ Goto("t_ack") /\ seen' = irq
  /\ UNCHANGED <<chip, rcv, payload, expired, mark>>

PollTxDone ==
  /\ step = "t_poll"
  /\ \/ Goto(IF "TX_DONE" \in irq THEN "t_ack" ELSE "t_wait") /\ seen' = irq
     \/ Faults /\ Fail /\ UNCHANGED seen
  /\ UNCHANGED <<chip, rcv, payload, expired, mark>>

AckTxDone == Write("t_ack", "r_stdby", ClearIrq(seen))

TransmitPacket == CheckSize \/ LoadPacket \/ CheckDeadline \/ PollTxDone \/ AckTxDone

\* The clock passes the deadline while the driver waits for TxDone.
DeadlinePasses ==
  /\ step \in {"t_wait", "t_poll"} /\ ~expired
  /\ expired' = TRUE
  /\ UNCHANGED <<chip, step, ok, seen, rcv, payload, mark>>

-----------------------------------------------------------------------------
Driver ==
  \/ HardwareReset \/ ReadVersion \/ BeginLora \/ RxContinuous
  \/ ReceivePacket \/ TransmitPacket \/ TransferLost

Steps == {"ret", "reset", "version", "b_sleep", "b_version", "b_modem", "b_stdby",
          "r_stdby", "r_dio", "r_clear", "r_ptr", "r_mode",
          "p_irq", "p_crc", "p_addr", "p_len", "p_snr", "p_rssi", "p_ptr", "p_fifo", "p_clear",
          "t_size", "t_stdby", "t_dio", "t_clear", "t_ptr", "t_fifo", "t_len", "t_mode",
          "t_wait", "t_poll", "t_ack"}

DriverTypeOK ==
  /\ step \in Steps
  /\ ok \in BOOLEAN
  /\ seen \subseteq Flags
  /\ rcv \in [slot : Slot, len : Frame, snr : Frame, rssi : Frame,
              data : Content, clean : BOOLEAN, got : BOOLEAN]
  /\ payload \in [data : Content, len : Content, fits : BOOLEAN]
  /\ expired \in BOOLEAN
  /\ mark \in Nat
=============================================================================
