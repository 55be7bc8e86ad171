------------------------- MODULE RadioDaemonTypes --------------------------
(***************************************************************************)
(* The types of RadioDaemon, for every FIFO size, number of frames and set *)
(* of configurations: first each register operation of the chip, then each *)
(* transfer of the driver, then the steps of main().                       *)
(***************************************************************************)
EXTENDS RadioDaemon, TLAPS

USE ChipAssumption, FaultsAssumption, ConfsAssumption

-----------------------------------------------------------------------------
(* Types of the chip.  The Boolean cfg is kept apart, for another prover.  *)

ChipData ==
  /\ mode \in {"SLEEP", "STDBY", "TX", "RXCONT"}
  /\ irq \subseteq Flags
  /\ dio \in {"RX_DONE", "TX_DONE"}
  /\ fifo \in [Slot -> Content]
  /\ ptr \in Slot /\ wr \in Slot
  /\ rx \in [slot : Slot, id : Frame]
  /\ txlen \in Content
  /\ heard \in Seq(FrameKinds)
  /\ aired \in Seq([data : Content, len : Content])
  /\ since \in -1 .. Len(heard)

LEMMA ChipParts ==
  /\ ChipTypeOK <=> ChipData /\ cfg \in BOOLEAN
  /\ ChipTypeOK' <=> ChipData' /\ cfg' \in BOOLEAN
  BY DEF ChipTypeOK, ChipData

LEMMA SlotFacts ==
  /\ 0 \in Slot /\ Garbage \in Frame /\ Garbage \in Content /\ Hex \in Content
  /\ \A s \in Slot : After(s) \in Slot
  /\ Frame \subseteq Content
  BY DEF Slot, After, Garbage, Hex, Frame, Content

LEMMA SetModeType ==
  ASSUME ChipTypeOK, NEW m \in {"SLEEP", "STDBY", "TX", "RXCONT"}, SetMode(m)
  PROVE  ChipTypeOK'
  BY ChipParts, SlotFacts DEF ChipData, SetMode, hist

LEMMA SleepType == ChipTypeOK /\ Sleep => ChipTypeOK'
<1> SUFFICES ASSUME ChipData, cfg \in BOOLEAN, Sleep PROVE ChipData' /\ cfg' \in BOOLEAN
  BY ChipParts
<1>1. cfg' \in BOOLEAN
  BY DEF Sleep
<1>2. fifo' \in [Slot -> Content]
  BY SlotFacts DEF Sleep
<1>3. since' \in -1 .. Len(heard)
  BY DEF Sleep, ChipData
<1> QED
  BY <1>1, <1>2, <1>3 DEF Sleep, ChipData

LEMMA RegisterTypes ==
  /\ \A f \in {"RX_DONE", "TX_DONE"} : ChipTypeOK /\ SetDio(f) => ChipTypeOK'
  /\ \A f \in SUBSET Flags : ChipTypeOK /\ ClearIrq(f) => ChipTypeOK'
  /\ \A s \in Slot : ChipTypeOK /\ SetPtr(s) => ChipTypeOK'
  /\ \A id \in Content : ChipTypeOK /\ SetLength(id) => ChipTypeOK'
  /\ ChipTypeOK /\ SetModem => ChipTypeOK'
  BY ChipParts DEF ChipData, SetDio, ClearIrq, SetPtr, SetLength, SetModem, hist

LEMMA WriteFifoType == ASSUME NEW id \in Content, ChipTypeOK, WriteFifo(id) PROVE ChipTypeOK'
  BY ChipParts, SlotFacts DEF ChipData, WriteFifo, hist

LEMMA ReadFifoType == ASSUME NEW b, ChipTypeOK, ReadFifo(b) PROVE ChipTypeOK'
<1>1. ptr' = ptr \/ ptr' = After(ptr)
  BY DEF ReadFifo
<1> QED
  BY <1>1, ChipParts, SlotFacts DEF ChipData, ReadFifo, hist

LEMMA ResetType == ChipTypeOK /\ ResetChip => ChipTypeOK'
<1> SUFFICES ASSUME ChipData, ResetChip PROVE ChipData' /\ cfg' \in BOOLEAN
  BY ChipParts
<1>1. cfg' \in BOOLEAN
  BY DEF ResetChip
<1>2. fifo' \in [Slot -> Content] /\ rx' \in [slot : Slot, id : Frame]
  BY SlotFacts DEF ResetChip, NoFrame
<1> QED
  BY <1>1, <1>2, SlotFacts DEF ResetChip, ChipData, hist

LEMMA IdleType == ChipTypeOK /\ UNCHANGED chip => ChipTypeOK'
  BY DEF ChipTypeOK, chip, regs, hist

LEMMA HearType == ChipTypeOK /\ Hear => ChipTypeOK'
  BY ChipParts, SlotFacts DEF ChipData, Hear, Frame, Content, Garbage, Flags

LEMMA FinishTxType == ChipTypeOK /\ FinishTx => ChipTypeOK'
  BY ChipParts, SlotFacts DEF ChipData, FinishTx, Flags
-----------------------------------------------------------------------------
(* Types of the driver.                                                    *)

Received == [slot : Slot, len : Frame, snr : Frame, rssi : Frame,
             data : Content, clean : BOOLEAN, got : BOOLEAN]
Payloads == [data : Content, len : Content, fits : BOOLEAN]

DriverData ==
  /\ step \in Steps
  /\ seen \subseteq Flags
  /\ rcv \in Received
  /\ payload \in Payloads
  /\ mark \in Nat

LEMMA DriverParts ==
  /\ DriverTypeOK <=> DriverData /\ ok \in BOOLEAN /\ expired \in BOOLEAN
  /\ DriverTypeOK' <=> DriverData' /\ ok' \in BOOLEAN /\ expired' \in BOOLEAN
  BY DEF DriverTypeOK, DriverData, Received, Payloads

\* A transfer that only writes.
LEMMA WriteType ==
  ASSUME DriverTypeOK, NEW l, NEW n \in Steps, Transfer(l, n), UNCHANGED locals
  PROVE  DriverTypeOK'
<1>1. ok' \in BOOLEAN
  BY DriverParts DEF Transfer, Goto, Fail
<1>2. step' \in Steps
  BY DEF Transfer, Goto, Fail, Steps
<1> QED
  BY <1>1, <1>2, DriverParts DEF locals, DriverData

LEMMA ReadType ==
  ASSUME DriverTypeOK, NEW l, NEW n \in Steps, Transfer(l, n),
         rcv' \in Received,
         UNCHANGED <<seen, payload, expired, mark>>
  PROVE  DriverTypeOK'
<1>1. ok' \in BOOLEAN
  BY DriverParts DEF Transfer, Goto, Fail
<1>2. step' \in Steps
  BY DEF Transfer, Goto, Fail, Steps
<1> QED
  BY <1>1, <1>2, DriverParts DEF DriverData

LEMMA SimpleCallsType ==
  ChipTypeOK /\ DriverTypeOK /\ (HardwareReset \/ ReadVersion \/ BeginLora \/ RxContinuous)
    => ChipTypeOK' /\ DriverTypeOK'
<1> SUFFICES ASSUME ChipTypeOK, DriverTypeOK
             PROVE (HardwareReset \/ ReadVersion \/ BeginLora \/ RxContinuous) => ChipTypeOK' /\ DriverTypeOK'
  OBVIOUS
<1>1. CASE HardwareReset
  BY <1>1, WriteType, ResetType DEF HardwareReset, Write, Steps
<1>2. CASE ReadVersion
  BY <1>2, WriteType, IdleType DEF ReadVersion, Write, Steps
<1>3. CASE BeginLora
  <2>1. DriverTypeOK'
    BY <1>3, WriteType DEF BeginLora, Write, Steps
  <2>2. Sleep \/ SetModem \/ SetMode("STDBY") \/ UNCHANGED chip
    BY <1>3 DEF BeginLora, Write
  <2>3. ChipTypeOK'
    BY <2>2, SleepType, RegisterTypes, SetModeType, IdleType
  <2> QED
    BY <2>1, <2>3
<1>4. CASE RxContinuous
  BY <1>4, WriteType, RegisterTypes, SetModeType, SlotFacts DEF RxContinuous, Write, Steps, Flags
<1> QED
  BY <1>1, <1>2, <1>3, <1>4

LEMMA ReadFlagsType == ChipTypeOK /\ DriverTypeOK /\ ReadFlags => ChipTypeOK' /\ DriverTypeOK'
<1> SUFFICES ASSUME ChipTypeOK, DriverTypeOK, ReadFlags PROVE ChipTypeOK' /\ DriverTypeOK'
  OBVIOUS
<1>1. ChipTypeOK'
  BY IdleType DEF ReadFlags
<1>2. ok' \in BOOLEAN /\ expired' \in BOOLEAN
  BY DriverParts DEF ReadFlags, Goto, Fail
<1>3. step' \in Steps
  BY DEF ReadFlags, Goto, Fail, Steps
<1>4. seen' \subseteq Flags /\ mark' \in Nat
  BY ChipParts, DriverParts DEF ReadFlags, ChipData, DriverData
<1>5. rcv' \in Received
  BY SlotFacts DEF ReadFlags, Nothing, Received
<1> QED
  BY <1>1, <1>2, <1>3, <1>4, <1>5, DriverParts DEF ReadFlags, DriverData

LEMMA ReadPacketType ==
  ChipTypeOK /\ DriverTypeOK /\ (DropBadFrame \/ ReadPacket) => ChipTypeOK' /\ DriverTypeOK'
<1> SUFFICES ASSUME ChipTypeOK, DriverTypeOK
             PROVE  DropBadFrame \/ ReadPacket => ChipTypeOK' /\ DriverTypeOK'
  OBVIOUS
<1>1. rcv \in Received /\ rx \in [slot : Slot, id : Frame]
  BY ChipParts, DriverParts DEF ChipData, DriverData
<1>2. /\ [rcv EXCEPT !.slot = rx.slot] \in Received
      /\ [rcv EXCEPT !.len = rx.id] \in Received
      /\ [rcv EXCEPT !.snr = rx.id] \in Received
      /\ [rcv EXCEPT !.rssi = rx.id] \in Received
      /\ rcv.slot \in Slot
  BY <1>1 DEF Received
<1>3. CASE DropBadFrame
  BY <1>3, RegisterTypes, DriverParts DEF DropBadFrame, locals, DriverData, Steps
<1>4. CASE \E l, n \in Steps : Transfer(l, n) /\ rcv' \in Received /\ UNCHANGED <<chip, seen, payload, expired, mark>>
  BY <1>4, ReadType, IdleType
<1>5. CASE Write("p_ptr", "p_fifo", SetPtr(rcv.slot))
  BY <1>5, <1>2, WriteType, RegisterTypes DEF Write, Steps
<1> QED
  BY <1>2, <1>3, <1>4, <1>5 DEF ReadPacket, Read, Steps

LEMMA ReadPayloadType ==
  ChipTypeOK /\ DriverTypeOK /\ ReadPayload => ChipTypeOK' /\ DriverTypeOK'
<1> SUFFICES ASSUME ChipTypeOK, DriverTypeOK, ReadPayload PROVE ChipTypeOK' /\ DriverTypeOK'
  OBVIOUS
<1>1. ChipTypeOK'
  BY ReadFifoType DEF ReadPayload
<1>2. rcv \in Received /\ fifo[ptr] \in Content
  BY ChipParts, DriverParts DEF ChipData, DriverData
<1>3. rcv' \in Received
  <2> DEFINE d == IF Empty(rcv.len) THEN Garbage ELSE fifo[ptr]
             c == Len(heard) = mark
  <2>1. d \in Content
    BY <1>2, SlotFacts
  <2>2. c \in BOOLEAN
    OBVIOUS
  <2>3. rcv' = [rcv EXCEPT !.data = d, !.clean = c]
    BY DEF ReadPayload
  <2> HIDE DEF d, c
  <2> QED
    BY <1>2, <2>1, <2>2, <2>3 DEF Received
<1> QED
  BY <1>1, <1>3, ReadType DEF ReadPayload, Steps

LEMMA AckPacketType ==
  ChipTypeOK /\ DriverTypeOK /\ AckPacket => ChipTypeOK' /\ DriverTypeOK'
<1> SUFFICES ASSUME ChipTypeOK, DriverTypeOK, AckPacket PROVE ChipTypeOK' /\ DriverTypeOK'
  OBVIOUS
<1>1. rcv \in Received /\ seen \in SUBSET Flags
  BY DriverParts DEF DriverData
<1>2. ChipTypeOK'
  BY <1>1, RegisterTypes DEF AckPacket
<1>3. rcv' \in Received
  BY <1>1 DEF AckPacket, Received
<1>4. ok' \in BOOLEAN /\ expired' \in BOOLEAN
  BY DriverParts DEF AckPacket
<1> QED
  BY <1>2, <1>3, <1>4, DriverParts DEF AckPacket, DriverData, Steps

LEMMA TransmitType ==
  ChipTypeOK /\ DriverTypeOK /\ TransmitPacket => ChipTypeOK' /\ DriverTypeOK'
<1> SUFFICES ASSUME ChipTypeOK, DriverTypeOK
             PROVE  TransmitPacket => ChipTypeOK' /\ DriverTypeOK'
  OBVIOUS
<1>1. payload.data \in Content /\ payload.len \in Content /\ seen \in SUBSET Flags
  BY DriverParts DEF DriverData, Payloads
<1>2. CASE CheckSize
  <2>1. ok' \in BOOLEAN /\ expired' \in BOOLEAN
    BY <1>2, DriverParts DEF CheckSize, Goto, Fail
  <2>2. step' \in Steps
    BY <1>2 DEF CheckSize, Goto, Fail, Steps
  <2> QED
    BY <1>2, <2>1, <2>2, IdleType, DriverParts DEF CheckSize, DriverData
<1>3. CASE LoadPacket
  <2>1. DriverTypeOK'
    BY <1>3, WriteType DEF LoadPacket, Write, Steps
  <2>2. \/ SetMode("STDBY") \/ SetMode("TX") \/ SetDio("TX_DONE") \/ ClearIrq(Flags) \/ SetPtr(0)
        \/ WriteFifo(payload.data) \/ SetLength(payload.len)
    BY <1>3 DEF LoadPacket, Write
  <2>3. ChipTypeOK'
    BY <1>1, <2>2, SetModeType, RegisterTypes, WriteFifoType, SlotFacts
  <2> QED
    BY <2>1, <2>3
<1>4. CASE CheckDeadline
  <2>1. ok' \in BOOLEAN /\ expired' \in BOOLEAN
    BY <1>4, DriverParts DEF CheckDeadline, Goto, Fail, locals
  <2>2. step' \in Steps
    BY <1>4 DEF CheckDeadline, Goto, Fail, Steps
  <2> QED
    BY <1>4, <2>1, <2>2, IdleType, DriverParts DEF CheckDeadline, DriverData, locals
<1>5. CASE PollTxDone
  <2>1. ok' \in BOOLEAN /\ expired' \in BOOLEAN
    BY <1>5, DriverParts DEF PollTxDone, Goto, Fail
  <2>2. step' \in Steps
    BY <1>5 DEF PollTxDone, Goto, Fail, Steps
  <2>3. seen' \subseteq Flags
    BY <1>5, ChipParts, DriverParts DEF PollTxDone, ChipData, DriverData
  <2> QED
    BY <1>5, <2>1, <2>2, <2>3, IdleType, DriverParts DEF PollTxDone, DriverData
<1>6. CASE AckTxDone
  BY <1>1, <1>6, WriteType, RegisterTypes DEF AckTxDone, Write, Steps
<1> QED
  BY <1>2, <1>3, <1>4, <1>5, <1>6 DEF TransmitPacket

LEMMA DriverType == ChipTypeOK /\ DriverTypeOK /\ Driver => ChipTypeOK' /\ DriverTypeOK'
<1> SUFFICES ASSUME ChipTypeOK, DriverTypeOK, TransferLost PROVE ChipTypeOK' /\ DriverTypeOK'
  BY SimpleCallsType, ReadFlagsType, ReadPacketType, ReadPayloadType, AckPacketType, TransmitType
  DEF Driver, ReceivePacket
<1>1. ok' \in BOOLEAN /\ expired' \in BOOLEAN
  BY DriverParts DEF TransferLost, locals
<1> QED
  BY <1>1, IdleType, DriverParts DEF TransferLost, locals, DriverData, Steps

-----------------------------------------------------------------------------
(* Types of main().                                                        *)

Sites == {"down", "reset", "version", "begin", "txhex", "listen", "loop", "tick",
          "receive", "repeat"}
Stats == [rx : Nat, tx : Nat, rxErr : Nat, txErr : Nat, ready : BOOLEAN, listening : BOOLEAN]

MainTypeOK ==
  /\ pc \in Sites
  /\ conf \in Confs
  /\ stats \in Stats
  /\ delivered \in Seq([data : Content, len : Frame])

LEMMA MainParts ==
  /\ TypeOK <=> ChipTypeOK /\ DriverTypeOK /\ MainTypeOK /\ running \in BOOLEAN
  /\ TypeOK' <=> ChipTypeOK' /\ DriverTypeOK' /\ MainTypeOK' /\ running' \in BOOLEAN
  BY DEF TypeOK, MainTypeOK, Sites, Stats

LEMMA CountType ==
  ASSUME stats \in Stats
  PROVE  /\ Count("rx") \in Stats /\ Count("tx") \in Stats
         /\ Count("rxErr") \in Stats /\ Count("txErr") \in Stats
         /\ [stats EXCEPT !.ready = TRUE] \in Stats
         /\ [stats EXCEPT !.listening = TRUE] \in Stats
<1>1. Count("rx") \in Stats
  BY DEF Count, Stats
<1>2. Count("tx") \in Stats
  BY DEF Count, Stats
<1>3. Count("rxErr") \in Stats
  BY DEF Count, Stats
<1>4. Count("txErr") \in Stats
  BY DEF Count, Stats
<1>5. [stats EXCEPT !.ready = TRUE] \in Stats
  BY DEF Stats
<1>6. [stats EXCEPT !.listening = TRUE] \in Stats
  BY DEF Stats
<1> QED
  BY <1>1, <1>2, <1>3, <1>4, <1>5, <1>6

LEMMA CallType ==
  ASSUME DriverTypeOK, NEW s \in Sites, NEW l \in Steps, Call(s, l),
         seen' = seen, rcv' = rcv, expired' = expired, mark' = mark, payload' \in Payloads
  PROVE  DriverTypeOK' /\ pc' \in Sites
  BY DriverParts DEF Call, DriverData

LEMMA KeepType == DriverTypeOK /\ UNCHANGED driver => DriverTypeOK'
  BY DEF DriverTypeOK, driver, locals

LEMMA StartType == TypeOK /\ Start => TypeOK'
<1> SUFFICES ASSUME TypeOK, Start PROVE TypeOK'
  OBVIOUS
<1>1. ChipTypeOK'
  <2>1. cfg' \in BOOLEAN
    BY DEF Start
  <2>2. since' \in -1 .. Len(heard)
    BY MainParts, ChipParts DEF Start, ChipData
  <2> QED
    BY <2>1, <2>2, MainParts, ChipParts DEF Start, ChipData
<1>2. DriverTypeOK'
  <2>1. step' \in Steps /\ seen' \subseteq Flags /\ mark' \in Nat
    BY DEF Start, Call, Steps
  <2>2. rcv' \in Received /\ payload' \in Payloads
    BY SlotFacts DEF Start, Nothing, NoPayload, Received, Payloads
  <2>3. ok' \in BOOLEAN /\ expired' \in BOOLEAN
    BY DEF Start, Call
  <2> QED
    BY <2>1, <2>2, <2>3, DriverParts DEF DriverData
<1>3. MainTypeOK'
  BY DEF Start, Call, MainTypeOK, Sites, Stats, ZeroStats
<1> QED
  BY <1>1, <1>2, <1>3, MainParts DEF Start

LEMMA MainType == TypeOK /\ Main => TypeOK'
<1> SUFFICES ASSUME ChipTypeOK, DriverTypeOK, MainTypeOK, running \in BOOLEAN
             PROVE  Main => ChipTypeOK' /\ DriverTypeOK' /\ MainTypeOK' /\ running' \in BOOLEAN
  BY MainParts
<1>p. payload \in Payloads /\ rcv \in Received
  BY DriverParts DEF DriverData
<1>1. CASE AfterReset \/ AfterVersion \/ AfterTxHex
  BY <1>1, <1>p, IdleType, CallType, CountType, KeepType
  DEF AfterReset, AfterVersion, AfterTxHex, Leave, MainTypeOK, Sites, Steps, locals, driver
<1>2. CASE AfterBegin
  <2>1. ChipTypeOK' /\ running' \in BOOLEAN
    BY <1>2, IdleType DEF AfterBegin
  <2>2. payload' \in Payloads
    <3>1. CASE UNCHANGED payload
      BY <1>p, <3>1
    <3>2. CASE payload' = [data |-> Hex, len |-> Hex, fits |-> conf.tx = "fits"]
      BY <3>2, SlotFacts DEF Payloads
    <3> QED
      BY <1>2, <3>1, <3>2 DEF AfterBegin
  <2>3. DriverTypeOK' /\ pc' \in Sites
    BY <1>2, <2>2, CallType DEF AfterBegin, Steps, Sites
  <2> QED
    BY <1>2, <2>1, <2>3, CountType DEF AfterBegin, MainTypeOK
<1>3. CASE AfterListen \/ LoopHead \/ AfterRepeat
  BY <1>3, IdleType, CountType, KeepType
  DEF AfterListen, LoopHead, AfterRepeat, MainTypeOK, Sites
<1>4. CASE CheckRadio \/ DioReadFails
  BY <1>4, <1>p, IdleType, CallType, KeepType
  DEF CheckRadio, DioReadFails, Leave, MainTypeOK, Sites, Steps, locals, driver
<1>5. CASE AfterReceive
  <2>1. ChipTypeOK' /\ running' \in BOOLEAN
    BY <1>5, IdleType DEF AfterReceive
  <2>2. stats' \in Stats /\ delivered' \in Seq([data : Content, len : Frame])
    <3>1. Packet(rcv) \in [data : Content, len : Frame]
      BY <1>p DEF Packet, Received
    <3>2. Append(delivered, Packet(rcv)) \in Seq([data : Content, len : Frame])
      BY <3>1 DEF MainTypeOK
    <3> QED
      BY <1>5, <3>2, CountType DEF AfterReceive, MainTypeOK
  <2>3. DriverTypeOK' /\ pc' \in Sites
    <3>1. CASE Call("repeat", "t_size") /\ payload' = [data |-> rcv.data, len |-> rcv.len, fits |-> ~Empty(rcv.len)]
      <4>1. payload' \in Payloads
        BY <1>p, <3>1, SlotFacts DEF Received, Payloads
      <4> QED
        BY <1>5, <3>1, <4>1, CallType DEF AfterReceive, Sites, Steps
    <3>2. CASE UNCHANGED <<payload, step, ok>> /\ pc' = "loop"
      BY <1>5, <3>2, KeepType DEF AfterReceive, Sites, driver, locals
    <3> QED
      BY <1>5, <3>1, <3>2 DEF AfterReceive
  <2> QED
    BY <1>5, <2>1, <2>2, <2>3 DEF AfterReceive, MainTypeOK
<1>6. CASE CallFailed
  BY <1>6, IdleType, CountType, KeepType DEF CallFailed, Leave, MainTypeOK, Sites, driver
<1> QED
  BY <1>1, <1>2, <1>3, <1>4, <1>5, <1>6 DEF Main

LEMMA NextTypeOK == TypeOK /\ [Next]_vars => TypeOK'
<1> SUFFICES ASSUME TypeOK, [Next]_vars PROVE TypeOK'
  OBVIOUS
<1>1. CASE DriverStep
  BY <1>1, DriverType, MainParts DEF DriverStep, main, MainTypeOK
<1>2. CASE HandleSignal \/ Crash
  BY <1>2, IdleType, KeepType, MainParts DEF HandleSignal, Crash, MainTypeOK, Sites
<1>3. CASE ChipStep
  BY <1>3, HearType, FinishTxType, KeepType, MainParts DEF ChipStep, main, MainTypeOK
<1>4. CASE DeadlinePasses /\ UNCHANGED main
  <2>1. DriverTypeOK'
    BY <1>4, MainParts, DriverParts DEF DeadlinePasses, DriverData
  <2> QED
    BY <1>4, <2>1, IdleType, MainParts DEF DeadlinePasses, main, MainTypeOK
<1>5. CASE UNCHANGED vars
  BY <1>5, IdleType, KeepType, MainParts DEF vars, main, MainTypeOK
<1> QED
  BY <1>1, <1>2, <1>3, <1>4, <1>5, StartType, MainType DEF Next, System, Clock

LEMMA InitTypeOK == Init => TypeOK
<1> SUFFICES ASSUME Init PROVE TypeOK
  OBVIOUS
<1>1. ChipTypeOK
  <2>1. fifo \in [Slot -> Content] /\ rx \in [slot : Slot, id : Frame]
    BY SlotFacts DEF Init, ChipInit, NoFrame
  <2>2. cfg \in BOOLEAN
    BY DEF Init, ChipInit
  <2> QED
    BY <2>1, <2>2, SlotFacts, ChipParts DEF Init, ChipInit, ChipData
<1>2. DriverTypeOK
  <2>1. rcv \in Received /\ payload \in Payloads
    BY SlotFacts DEF Init, DriverInit, Nothing, NoPayload, Received, Payloads
  <2>2. ok \in BOOLEAN /\ expired \in BOOLEAN
    BY DEF Init, DriverInit
  <2> QED
    BY <2>1, <2>2, DriverParts DEF Init, DriverInit, DriverData, Steps
<1>3. running \in BOOLEAN
  BY DEF Init
<1>4. MainTypeOK
  BY DEF Init, MainTypeOK, Sites, Stats, ZeroStats
<1> QED
  BY <1>1, <1>2, <1>3, <1>4, MainParts

\* Every variable keeps its type, whatever the hardware and the configurations.
THEOREM TypeCorrect == Spec => []TypeOK
  BY InitTypeOK, NextTypeOK, PTL DEF Spec
=============================================================================
