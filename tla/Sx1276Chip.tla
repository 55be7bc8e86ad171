----------------------------- MODULE Sx1276Chip -----------------------------
(***************************************************************************)
(* The SX1276 LoRa transceiver as the driver in src/src/sx1276.cpp uses    *)
(* it: operating mode, interrupt flags (write one to clear), DIO0 mapping, *)
(* the FIFO with its pointer, and the registers that describe the last     *)
(* frame received.  The chip is external hardware, and it runs             *)
(* concurrently with the daemon: Hear and FinishTx happen between any two  *)
(* SPI transfers.                                                          *)
(*                                                                         *)
(* A frame is the number of its arrival, 1, 2, ...  The FIFO is divided    *)
(* into slots of one frame each: one slot stands for frames of up to 255   *)
(* bytes, which overwrite each other in the 256-byte ring, two slots for   *)
(* frames of half that size, and so on.                                    *)
(***************************************************************************)
EXTENDS Integers, Sequences

CONSTANTS
  Slots,       \* number of frames the FIFO holds
  FrameKinds,  \* the kinds of frame on the air
  MaxFrames    \* bound on the number of frames heard in a behaviour

ASSUME ChipAssumption ==
  /\ Slots \in Nat \ {0}
  /\ MaxFrames \in Nat
  /\ FrameKinds \subseteq [good : BOOLEAN, empty : BOOLEAN]

VARIABLES
  mode,   \* RegOpMode
  irq,    \* RegIrqFlags, the set of flags that are up
  dio,    \* RegDioMapping1: the flag routed to the DIO0 pin
  fifo,   \* the frame whose bytes each slot holds
  ptr,    \* RegFifoAddrPtr, as a slot
  rx,     \* RegRxCurrentAddr (slot) and RegRxNbBytes/PktSnr/PktRssi (frame id)
  wr,     \* the slot the next received frame goes to
  txlen,  \* RegPayloadLength, as the frame whose length it is
  cfg,    \* the modem registers hold what the running process configured
  heard,  \* history: the kind of every frame the chip has received
  aired,  \* history: what was sent since the running process took the chip
  since   \* history: frames heard before it took the chip, -1 until then

hist == <<heard, aired, since>>
regs == <<mode, irq, dio, fifo, ptr, rx, wr, txlen, cfg>>
chip == <<regs, hist>>

Flags == {"RX_DONE", "CRC_ERROR", "TX_DONE"}
Slot == 0 .. Slots - 1
Garbage == 0  \* FIFO content that is no frame
Hex == -1     \* the payload given with --tx-hex
NoFrame == [slot |-> 0, id |-> Garbage]
Frame == Garbage .. MaxFrames
Content == Hex .. MaxFrames

DioHigh == dio \in irq
After(s) == (s + 1) % Slots
Empty(id) == id \in 1 .. Len(heard) /\ heard[id].empty

ChipInit ==
  /\ mode = "STDBY" /\ irq = {} /\ dio = "RX_DONE" /\ cfg = FALSE
  /\ fifo = [s \in Slot |-> Garbage] /\ ptr = 0 /\ wr = 0
  /\ rx = NoFrame /\ txlen = Garbage
  /\ heard = <<>> /\ aired = <<>> /\ since = -1

-----------------------------------------------------------------------------
(* What a write of the driver does to the registers.  Entering receive     *)
(* mode restarts reception at the FIFO's base address; sleep mode loses    *)
(* the FIFO, and is the first thing a process does to the chip.            *)

SetMode(m) ==
  /\ mode' = m
  /\ wr' = IF m = "RXCONT" /\ mode # m THEN 0 ELSE wr
  /\ UNCHANGED <<irq, dio, fifo, ptr, rx, txlen, cfg, hist>>

Sleep ==
  /\ mode' = "SLEEP"
  /\ fifo' = [s \in Slot |-> Garbage]
  /\ aired' = <<>> /\ since' = Len(heard)
  /\ UNCHANGED <<irq, dio, ptr, rx, wr, txlen, cfg, heard>>

SetDio(flag) ==
  dio' = flag /\ UNCHANGED <<mode, irq, fifo, ptr, rx, wr, txlen, cfg, hist>>

ClearIrq(flags) ==
  irq' = irq \ flags /\ UNCHANGED <<mode, dio, fifo, ptr, rx, wr, txlen, cfg, hist>>

SetPtr(s) ==
  ptr' = s /\ UNCHANGED <<mode, irq, dio, fifo, rx, wr, txlen, cfg, hist>>

SetLength(id) ==
  txlen' = id /\ UNCHANGED <<mode, irq, dio, fifo, ptr, rx, wr, cfg, hist>>

SetModem ==
  cfg' = TRUE /\ UNCHANGED <<mode, irq, dio, fifo, ptr, rx, wr, txlen, hist>>

\* A burst to or from the FIFO starts at the pointer and advances it.
WriteFifo(id) ==
  /\ fifo' = [fifo EXCEPT ![ptr] = id]
  /\ ptr' = After(ptr)
  /\ UNCHANGED <<mode, irq, dio, rx, wr, txlen, cfg, hist>>

ReadFifo(nothing) ==
  /\ ptr' = IF nothing THEN ptr ELSE After(ptr)
  /\ UNCHANGED <<mode, irq, dio, fifo, rx, wr, txlen, cfg, hist>>

\* A pulse on the RESET pin.
ResetChip ==
  /\ mode' = "STDBY" /\ irq' = {} /\ dio' = "RX_DONE" /\ cfg' = FALSE
  /\ fifo' = [s \in Slot |-> Garbage] /\ ptr' = 0 /\ wr' = 0
  /\ rx' = NoFrame /\ txlen' = Garbage
  /\ UNCHANGED hist

-----------------------------------------------------------------------------
(* What the chip does on its own.                                          *)

\* A frame completes in receive mode.  RxDone rises for every frame; the
\* payload CRC flag rises as well when the CRC does not match.
Hear ==
  /\ mode = "RXCONT"
  /\ Len(heard) < MaxFrames
  /\ \E kind \in FrameKinds :
       LET id == Len(heard) + 1 IN
         /\ heard' = Append(heard, kind)
         /\ irq' = irq \union (IF kind.good THEN {"RX_DONE"} ELSE {"RX_DONE", "CRC_ERROR"})
         /\ rx' = [slot |-> wr, id |-> id]
         /\ fifo' = IF kind.empty THEN fifo ELSE [fifo EXCEPT ![wr] = id]
         /\ wr' = IF kind.empty THEN wr ELSE After(wr)
  /\ UNCHANGED <<mode, dio, ptr, txlen, cfg, aired, since>>

\* A transmission ends: RegPayloadLength bytes from the TX base address, slot 0, were
\* sent, TxDone rises, and the chip falls back to standby.
FinishTx ==
  /\ mode = "TX"
  /\ mode' = "STDBY"
  /\ irq' = irq \union {"TX_DONE"}
  /\ aired' = Append(aired, [data |-> fifo[0], len |-> txlen])
  /\ UNCHANGED <<dio, fifo, ptr, rx, wr, txlen, cfg, heard, since>>

ChipTypeOK ==
  /\ mode \in {"SLEEP", "STDBY", "TX", "RXCONT"}
  /\ irq \subseteq Flags
  /\ dio \in {"RX_DONE", "TX_DONE"}
  /\ fifo \in [Slot -> Content]
  /\ ptr \in Slot /\ wr \in Slot
  /\ rx \in [slot : Slot, id : Frame]
  /\ txlen \in Content
  /\ cfg \in BOOLEAN
  /\ heard \in Seq(FrameKinds)
  /\ aired \in Seq([data : Content, len : Content])
  /\ since \in -1 .. Len(heard)
=============================================================================
