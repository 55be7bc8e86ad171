------------------------- MODULE RadioDaemonProofs -------------------------
(***************************************************************************)
(* Safety of RadioDaemon: the served statistics are true, the chip is on   *)
(* the air only under the configuration of the process that took it, and   *)
(* a repeater implements StoreAndForward.                                  *)
(*                                                                         *)
(* None of them is inductive.  Each needs to know, transfer by transfer,   *)
(* what the calls made so far have brought about: IInv says it, part by    *)
(* part, for every place of the program.                                   *)
(***************************************************************************)
EXTENDS RadioDaemonTypes, SequenceTheorems

PSteps == {"p_irq", "p_crc", "p_addr", "p_len", "p_snr", "p_rssi", "p_ptr", "p_fifo", "p_clear"}
RSteps == {"r_stdby", "r_dio", "r_clear", "r_ptr", "r_mode"}
LoadSteps == {"t_size", "t_stdby", "t_dio", "t_clear", "t_ptr", "t_fifo", "t_len", "t_mode"}
TSteps == LoadSteps \union {"t_wait", "t_poll", "t_ack"}

\* Which call runs at which place of main().
Place ==
  /\ pc = "reset" => step \in {"reset", "ret"}
  /\ pc = "version" => step \in {"version", "ret"}
  /\ pc = "begin" => step \in {"b_sleep", "b_version", "b_modem", "b_stdby", "ret"}
  /\ pc = "listen" => step \in RSteps \union {"ret"}
  /\ pc \in {"txhex", "repeat"} => step \in TSteps \union RSteps \union {"ret"}
  /\ pc = "receive" => step \in PSteps \union {"ret"}
  /\ pc \in {"loop", "tick"} => step = "ret"

\* begin_lora configures before anything can be on the air.
Configured ==
  /\ pc \in {"reset", "version"} => since = -1
  /\ since >= 0 /\ mode \in {"TX", "RXCONT"} => cfg
  /\ pc = "begin" /\ step \in {"b_version", "b_modem"} => since >= 0 /\ mode = "SLEEP"
  /\ pc = "begin" /\ step = "b_stdby" => since >= 0 /\ cfg
  /\ pc = "begin" /\ step = "ret" /\ ok => since >= 0 /\ cfg /\ mode = "STDBY"
  /\ pc \in {"txhex", "listen", "loop", "tick", "receive", "repeat"} => since >= 0 /\ cfg

\* rx_continuous, and where its effect lasts.
Listening ==
  pc # "down" =>
    /\ step \in {"r_dio", "r_clear", "r_ptr", "r_mode"} => mode = "STDBY"
    /\ step \in {"r_clear", "r_ptr", "r_mode"} => dio = "RX_DONE"
    /\ pc \in {"listen", "txhex", "repeat"} /\ step = "ret" /\ ok =>
         mode = "RXCONT" /\ dio = "RX_DONE"
    /\ pc \in {"loop", "tick", "receive"} => mode = "RXCONT" /\ dio = "RX_DONE"

\* What main() has counted.
Counted ==
  /\ pc # "down" => stats.rxErr = 0 /\ stats.txErr = 0 /\ stats.rx = Len(delivered)
  /\ pc \in {"reset", "version", "begin"} => ~stats.ready /\ stats.tx = 0
  /\ pc \in {"txhex", "listen", "loop", "tick", "receive", "repeat"} => stats.ready
  /\ pc \in {"loop", "tick", "receive", "repeat"} => stats.listening
  /\ pc \in {"reset", "version", "begin", "txhex", "listen"} => delivered = <<>>

\* The packet a running transmission is about, before and after it was sent.
Carried == [data |-> payload.data, len |-> payload.len]
Unsent == Owed = Append(aired, Carried) /\ stats.tx = Len(aired)
Sent == mode # "TX" /\ aired = Owed /\ Len(aired) = stats.tx + 1

\* transmit_packet, transfer by transfer; the first conjunct also holds after
\* the process died in it.
Sending ==
  /\ since >= 0 /\ mode = "TX" => Owed = Append(aired, [data |-> fifo[0], len |-> txlen])
  /\ pc = "begin" /\ since >= 0 => aired = <<>> /\ mode # "TX"
  /\ pc \in {"listen", "loop", "tick", "receive"} =>
       mode # "TX" /\ aired = Owed /\ stats.tx = Len(aired)
  /\ pc \in {"txhex", "repeat"} =>
       /\ step \in LoadSteps => mode # "TX" /\ Unsent
       /\ step \in {"t_dio", "t_clear", "t_ptr", "t_fifo", "t_len", "t_mode"} => mode = "STDBY"
       /\ step \in {"t_ptr", "t_fifo", "t_len", "t_mode"} => "TX_DONE" \notin irq
       /\ step = "t_fifo" => ptr = 0
       /\ step \in {"t_len", "t_mode", "t_wait", "t_poll"} => fifo[0] = payload.data
       /\ step \in {"t_mode", "t_wait", "t_poll"} => txlen = payload.len
       /\ step \in {"t_wait", "t_poll"} =>
            (mode = "TX" /\ "TX_DONE" \notin irq /\ Unsent) \/ (mode = "STDBY" /\ Sent)
       /\ step \in RSteps \union {"t_ack"} \/ (step = "ret" /\ ok) => Sent

IInv == TypeOK /\ Place /\ Configured /\ Listening /\ Counted /\ Sending

-----------------------------------------------------------------------------
(* The steps of the driver, one lemma for each part.                       *)

LEMMA DriverPlace == Place /\ DriverStep => Place'
<1> SUFFICES ASSUME Place, Driver, UNCHANGED main PROVE Place'
  BY DEF DriverStep
<1> USE DEF Place, main
<1>1. CASE HardwareReset \/ ReadVersion \/ BeginLora
  BY <1>1 DEF HardwareReset, ReadVersion, BeginLora, Write, Transfer, Goto, Fail, RSteps, TSteps,
     LoadSteps, PSteps
<1>2. CASE RxContinuous
  BY <1>2 DEF RxContinuous, Write, Transfer, Goto, Fail, RSteps, TSteps, LoadSteps, PSteps
<1>3. CASE ReceivePacket
  BY <1>3 DEF ReceivePacket, ReadFlags, DropBadFrame, ReadPacket, ReadPayload, AckPacket,
     Read, Write, Transfer, Goto, Fail, RSteps, TSteps, LoadSteps, PSteps
<1>4. CASE TransmitPacket
  BY <1>4 DEF TransmitPacket, CheckSize, LoadPacket, CheckDeadline, PollTxDone, AckTxDone,
     Write, Transfer, Goto, Fail, RSteps, TSteps, LoadSteps, PSteps
<1>5. CASE TransferLost
  BY <1>5 DEF TransferLost, RSteps, TSteps, LoadSteps, PSteps
<1> QED
  BY <1>1, <1>2, <1>3, <1>4, <1>5 DEF Driver
\* Where a transfer of each call can run.
LEMMA SiteOfStep ==
  ASSUME Place, pc \in Sites, pc # "down"
  PROVE  /\ step = "reset" => pc = "reset"
         /\ step \in {"b_sleep", "b_version", "b_modem", "b_stdby"} => pc = "begin"
         /\ step \in RSteps => pc \in {"listen", "txhex", "repeat"}
         /\ step \in PSteps => pc = "receive"
         /\ step \in TSteps => pc \in {"txhex", "repeat"}
  BY DEF Place, Sites, RSteps, PSteps, TSteps, LoadSteps

LEMMA DriverConfigured ==
  TypeOK /\ Place /\ Configured /\ DriverStep => Configured'
<1> SUFFICES ASSUME TypeOK, Place, Configured, pc # "down", Driver, UNCHANGED main
             PROVE  Configured'
  BY DEF DriverStep
<1>s. pc \in Sites
  BY MainParts DEF MainTypeOK
<1> USE DEF Configured, main
<1>1. CASE HardwareReset
  BY <1>1, <1>s, SiteOfStep DEF HardwareReset, Write, ResetChip, hist, Transfer
<1>2. CASE ReadVersion
  <2>1. pc = "version"
    BY <1>2, <1>s DEF ReadVersion, Write, Transfer, Place, Sites, RSteps, PSteps, TSteps, LoadSteps
  <2> QED
    BY <1>2, <2>1 DEF ReadVersion, Write, chip, regs, hist
<1>3. CASE BeginLora
  <2>1. pc = "begin"
    BY <1>3, <1>s, SiteOfStep DEF BeginLora, Write, Transfer
  <2>2. CASE Write("b_sleep", "b_version", Sleep)
    <3>1. Len(heard) >= 0
      BY MainParts, ChipParts DEF ChipData
    <3> QED
      BY <2>1, <2>2, <3>1 DEF Write, Transfer, Goto, Fail, Sleep
  <2>3. CASE Write("b_version", "b_modem", UNCHANGED chip)
    BY <2>1, <2>3 DEF Write, Transfer, Goto, Fail, chip, regs, hist
  <2>4. CASE Write("b_modem", "b_stdby", SetModem)
    BY <2>1, <2>4 DEF Write, Transfer, Goto, Fail, SetModem, hist
  <2>5. CASE Write("b_stdby", "ret", SetMode("STDBY"))
    BY <2>1, <2>5 DEF Write, Transfer, Goto, Fail, SetMode, hist
  <2> QED
    BY <1>3, <2>2, <2>3, <2>4, <2>5 DEF BeginLora
<1>4. CASE RxContinuous
  <2>1. pc \in {"listen", "txhex", "repeat"}
    BY <1>4, <1>s, SiteOfStep DEF RxContinuous, Write, Transfer, RSteps
  <2>2. UNCHANGED <<cfg, since>>
    BY <1>4 DEF RxContinuous, Write, SetMode, SetDio, ClearIrq, SetPtr, hist
  <2> QED
    BY <2>1, <2>2
<1>5. CASE ReceivePacket
  <2>1. pc = "receive"
    BY <1>5, <1>s, SiteOfStep DEF ReceivePacket, ReadFlags, DropBadFrame, ReadPacket, ReadPayload,
       AckPacket, Read, Write, Transfer, PSteps
  <2>2. UNCHANGED <<cfg, since>>
    BY <1>5 DEF ReceivePacket, ReadFlags, DropBadFrame, ReadPacket, ReadPayload, AckPacket,
       Read, Write, ReadFifo, ClearIrq, SetPtr, chip, regs, hist
  <2> QED
    BY <2>1, <2>2
<1>6. CASE TransmitPacket
  <2>1. pc \in {"txhex", "repeat"}
    BY <1>6, <1>s, SiteOfStep DEF TransmitPacket, CheckSize, LoadPacket, CheckDeadline, PollTxDone,
       AckTxDone, Write, Transfer, TSteps, LoadSteps
  <2>2. UNCHANGED <<cfg, since>>
    BY <1>6 DEF TransmitPacket, CheckSize, LoadPacket, CheckDeadline, PollTxDone, AckTxDone,
       Write, SetMode, SetDio, ClearIrq, SetPtr, SetLength, WriteFifo, chip, regs, hist
  <2> QED
    BY <2>1, <2>2
<1>7. CASE TransferLost
  <2>1. UNCHANGED chip /\ step' = "ret" /\ (ok' => step = "p_crc")
    BY <1>7 DEF TransferLost
  <2>2. ok' => pc = "receive"
    BY <1>s, <2>1, SiteOfStep DEF PSteps
  <2> QED
    BY <2>1, <2>2 DEF chip, regs, hist
<1> QED
  BY <1>1, <1>2, <1>3, <1>4, <1>5, <1>6, <1>7 DEF Driver

LEMMA DriverListening ==
  TypeOK /\ Place /\ Listening /\ DriverStep => Listening'
<1> SUFFICES ASSUME TypeOK, Place, Listening, pc # "down", Driver, UNCHANGED main
             PROVE  Listening'
  BY DEF DriverStep
<1>s. pc \in Sites
  BY MainParts DEF MainTypeOK
<1> USE DEF Listening, main
<1>1. CASE HardwareReset
  BY <1>1, <1>s, SiteOfStep DEF HardwareReset, Write, ResetChip, Transfer, Goto, Fail
<1>2. CASE ReadVersion
  <2>1. pc = "version"
    BY <1>2, <1>s DEF ReadVersion, Write, Transfer, Place, Sites, RSteps, PSteps, TSteps, LoadSteps
  <2> QED
    BY <1>2, <2>1 DEF ReadVersion, Write, Transfer, Goto, Fail
<1>3. CASE BeginLora
  <2>1. pc = "begin"
    BY <1>3, <1>s, SiteOfStep DEF BeginLora, Write, Transfer
  <2> QED
    BY <1>3, <2>1 DEF BeginLora, Write, Transfer, Goto, Fail
<1>4. CASE RxContinuous
  <2>1. pc \in {"listen", "txhex", "repeat"}
    BY <1>4, <1>s, SiteOfStep DEF RxContinuous, Write, Transfer, RSteps
  <2> QED
    BY <1>4, <2>1 DEF RxContinuous, Write, Transfer, Goto, Fail, SetMode, SetDio, ClearIrq, SetPtr
<1>5. CASE ReceivePacket
  <2>1. pc = "receive" /\ step' \in PSteps \union {"ret"}
    BY <1>5, <1>s, SiteOfStep DEF ReceivePacket, ReadFlags, DropBadFrame, ReadPacket, ReadPayload,
       AckPacket, Read, Write, Transfer, Goto, Fail, PSteps
  <2>2. UNCHANGED <<mode, dio>>
    BY <1>5 DEF ReceivePacket, ReadFlags, DropBadFrame, ReadPacket, ReadPayload, AckPacket,
       Read, Write, ReadFifo, ClearIrq, SetPtr, chip, regs
  <2> QED
    BY <2>1, <2>2 DEF PSteps
<1>6. CASE TransmitPacket
  <2>1. pc \in {"txhex", "repeat"}
    BY <1>6, <1>s, SiteOfStep DEF TransmitPacket, CheckSize, LoadPacket, CheckDeadline, PollTxDone,
       AckTxDone, Write, Transfer, TSteps, LoadSteps
  <2>2. /\ step' \in TSteps \union {"ret", "r_stdby"}
        /\ step' = "ret" => ~ok'
    BY <1>6 DEF TransmitPacket, CheckSize, LoadPacket, CheckDeadline, PollTxDone, AckTxDone,
       Write, Transfer, Goto, Fail, TSteps, LoadSteps
  <2> QED
    BY <2>1, <2>2 DEF TSteps, LoadSteps
<1>7. CASE TransferLost
  <2>1. UNCHANGED chip /\ step' = "ret" /\ (ok' => step = "p_crc")
    BY <1>7 DEF TransferLost
  <2>2. ok' => pc = "receive"
    BY <1>s, <2>1, SiteOfStep DEF PSteps
  <2> QED
    BY <2>1, <2>2 DEF chip, regs
<1> QED
  BY <1>1, <1>2, <1>3, <1>4, <1>5, <1>6, <1>7 DEF Driver

LEMMA OwedSame == UNCHANGED <<conf, delivered>> /\ stats'.ready = stats.ready => Owed' = Owed
  BY DEF Owed

LEMMA DriverSending ==
  TypeOK /\ Place /\ Configured /\ Sending /\ DriverStep => Sending'
<1> SUFFICES ASSUME TypeOK, Place, Configured, Sending, pc # "down", Driver, UNCHANGED main
             PROVE  Sending'
  BY DEF DriverStep
<1>s. pc \in Sites
  BY MainParts DEF MainTypeOK
<1>o. Owed' = Owed
  BY OwedSame DEF main
<1> USE DEF Sending, main, Unsent, Sent, Carried
<1>1. CASE HardwareReset
  BY <1>1, <1>s, SiteOfStep DEF HardwareReset, Write, ResetChip, hist, Transfer
<1>2. CASE ReadVersion
  <2>1. pc = "version"
    BY <1>2, <1>s DEF ReadVersion, Write, Transfer, Place, Sites, RSteps, PSteps, TSteps, LoadSteps
  <2> QED
    BY <1>2, <1>o, <2>1 DEF ReadVersion, Write, chip, regs, hist
<1>3. CASE BeginLora
  <2>1. pc = "begin"
    BY <1>3, <1>s, SiteOfStep DEF BeginLora, Write, Transfer
  <2> QED
    BY <1>3, <1>o, <2>1 DEF BeginLora, Write, Sleep, SetModem, SetMode, chip, regs, hist
<1>4. CASE RxContinuous
  <2>1. pc \in {"listen", "txhex", "repeat"} /\ step \in RSteps
    BY <1>4, <1>s, SiteOfStep DEF RxContinuous, Write, Transfer, RSteps
  <2>2. mode # "TX" /\ mode' # "TX"
    BY <1>4, <2>1 DEF RxContinuous, Write, SetMode, SetDio, ClearIrq, SetPtr, RSteps
  <2>3. UNCHANGED <<aired, since, payload>> /\ step' \in RSteps \union {"ret"}
    BY <1>4 DEF RxContinuous, Write, SetMode, SetDio, ClearIrq, SetPtr, hist, locals, RSteps,
       Transfer, Goto, Fail
  <2> QED
    BY <1>o, <2>1, <2>2, <2>3 DEF RSteps, LoadSteps
<1>5. CASE ReceivePacket
  <2>1. pc = "receive"
    BY <1>5, <1>s, SiteOfStep DEF ReceivePacket, ReadFlags, DropBadFrame, ReadPacket, ReadPayload,
       AckPacket, Read, Write, Transfer, PSteps
  <2>2. UNCHANGED <<mode, aired>>
    BY <1>5 DEF ReceivePacket, ReadFlags, DropBadFrame, ReadPacket, ReadPayload, AckPacket,
       Read, Write, ReadFifo, ClearIrq, SetPtr, chip, regs, hist
  <2> QED
    BY <1>o, <2>1, <2>2
<1>6. CASE TransmitPacket
  <2>1. pc \in {"txhex", "repeat"}
    BY <1>6, <1>s, SiteOfStep DEF TransmitPacket, CheckSize, LoadPacket, CheckDeadline, PollTxDone,
       AckTxDone, Write, Transfer, TSteps, LoadSteps
  <2>2. UNCHANGED <<aired, since, payload>>
    BY <1>6 DEF TransmitPacket, CheckSize, LoadPacket, CheckDeadline, PollTxDone, AckTxDone,
       Write, SetMode, SetDio, ClearIrq, SetPtr, SetLength, WriteFifo, chip, regs, hist, locals
  <2>3. CASE CheckSize \/ CheckDeadline \/ PollTxDone
    <3>1. UNCHANGED chip
      BY <2>3 DEF CheckSize, CheckDeadline, PollTxDone
    <3> QED
      BY <1>o, <2>1, <2>2, <2>3, <3>1 DEF CheckSize, CheckDeadline, PollTxDone, Goto, Fail, chip, regs,
         LoadSteps, RSteps
  <2>4. CASE LoadPacket
    <3>1. fifo \in [Slot -> Content] /\ 0 \in Slot
      BY MainParts, ChipParts, SlotFacts DEF ChipData
    <3>2. CASE Write("t_fifo", "t_len", WriteFifo(payload.data))
      BY <1>o, <2>1, <2>2, <3>1, <3>2 DEF Write, Transfer, Goto, Fail, WriteFifo, LoadSteps, RSteps
    <3>3. CASE Write("t_mode", "t_wait", SetMode("TX"))
      BY <1>o, <2>1, <2>2, <3>3 DEF Write, Transfer, Goto, Fail, SetMode, LoadSteps, RSteps
    <3>4. CASE Write("t_stdby", "t_dio", SetMode("STDBY")) \/ Write("t_dio", "t_clear", SetDio("TX_DONE"))
      BY <1>o, <2>1, <2>2, <3>4 DEF Write, Transfer, Goto, Fail, SetMode, SetDio, LoadSteps, RSteps
    <3>5. CASE Write("t_clear", "t_ptr", ClearIrq(Flags))
      BY <1>o, <2>1, <2>2, <3>5 DEF Write, Transfer, Goto, Fail, ClearIrq, Flags, LoadSteps, RSteps
    <3>6. CASE Write("t_ptr", "t_fifo", SetPtr(0)) \/ Write("t_len", "t_mode", SetLength(payload.len))
      BY <1>o, <2>1, <2>2, <3>6 DEF Write, Transfer, Goto, Fail, SetPtr, SetLength, LoadSteps, RSteps
    <3> QED
      BY <2>4, <3>2, <3>3, <3>4, <3>5, <3>6 DEF LoadPacket
  <2>5. CASE AckTxDone
    BY <1>o, <2>1, <2>2, <2>5 DEF AckTxDone, Write, Transfer, Goto, Fail, ClearIrq, LoadSteps, RSteps
  <2> QED
    BY <1>6, <2>3, <2>4, <2>5 DEF TransmitPacket
<1>7. CASE TransferLost
  <2>1. UNCHANGED <<chip, payload>> /\ step' = "ret" /\ (ok' => step = "p_crc")
    BY <1>7 DEF TransferLost, locals
  <2>2. ok' => pc = "receive"
    BY <1>s, <2>1, SiteOfStep DEF PSteps
  <2> QED
    BY <1>o, <2>1, <2>2 DEF chip, regs, hist, LoadSteps, RSteps
<1> QED
  BY <1>1, <1>2, <1>3, <1>4, <1>5, <1>6, <1>7 DEF Driver

-----------------------------------------------------------------------------
(* The steps of main().                                                    *)

LEMMA StartIInv == IInv /\ Start => Place' /\ Configured' /\ Listening' /\ Counted' /\ Sending'
<1> SUFFICES ASSUME IInv, Start
             PROVE  Place' /\ Configured' /\ Listening' /\ Counted' /\ Sending'
  OBVIOUS
<1>1. pc' \in {"reset", "version"} /\ step' = pc' /\ since' = -1
  BY DEF Start, Call
<1>2. Place' /\ Configured' /\ Listening'
  BY <1>1 DEF Place, Configured, Listening
<1>3. Counted'
  BY <1>1 DEF Counted, Start, ZeroStats
<1>4. Sending'
  BY <1>1 DEF Sending
<1> QED
  BY <1>2, <1>3, <1>4

\* main() never writes a register.
LEMMA MainPlace == IInv /\ Main => Place' /\ Configured' /\ Listening'
<1> SUFFICES ASSUME Place, Configured, Listening, Main PROVE Place' /\ Configured' /\ Listening'
  BY DEF IInv
<1>1. UNCHANGED <<mode, dio, cfg, since>>
  BY DEF Main, AfterReset, AfterVersion, AfterBegin, AfterTxHex, AfterListen, LoopHead, CheckRadio,
     DioReadFails, AfterReceive, AfterRepeat, CallFailed, chip, regs, hist
<1>2. CASE AfterReset \/ AfterVersion \/ AfterBegin \/ AfterTxHex \/ AfterListen
  BY <1>1, <1>2 DEF AfterReset, AfterVersion, AfterBegin, AfterTxHex, AfterListen, Returned, Call,
     Leave, driver, Place, Configured, Listening, RSteps, TSteps, LoadSteps, PSteps
<1>3. CASE LoopHead \/ CheckRadio \/ DioReadFails
  BY <1>1, <1>3 DEF LoopHead, CheckRadio, DioReadFails, Call, Leave, driver, Place, Configured,
     Listening, RSteps, TSteps, LoadSteps, PSteps
<1>4. CASE AfterReceive \/ AfterRepeat \/ CallFailed
  BY <1>1, <1>4 DEF AfterReceive, AfterRepeat, CallFailed, Returned, Call, Leave, driver, Place,
     Configured, Listening, RSteps, TSteps, LoadSteps, PSteps
<1> QED
  BY <1>2, <1>3, <1>4 DEF Main

LEMMA MainCounted == IInv /\ Main => Counted'
<1> SUFFICES ASSUME Counted, stats \in Stats, delivered \in Seq([data : Content, len : Frame]),
                    Packet(rcv) \in [data : Content, len : Frame], Main
             PROVE  Counted'
  BY MainParts, DriverParts DEF IInv, MainTypeOK, DriverData, Received, Packet
<1> USE DEF Counted
<1>1. CASE AfterReset \/ AfterVersion
  BY <1>1 DEF AfterReset, AfterVersion, Returned, Call, Leave
<1>2. CASE AfterBegin
  BY <1>2 DEF AfterBegin, Returned, Call, Stats
<1>3. CASE AfterTxHex
  BY <1>3 DEF AfterTxHex, Returned, Call, Count, Stats
<1>4. CASE AfterListen
  BY <1>4 DEF AfterListen, Returned, Stats
<1>5. CASE LoopHead \/ CheckRadio \/ DioReadFails \/ CallFailed
  BY <1>5 DEF LoopHead, CheckRadio, DioReadFails, CallFailed, Call, Leave
<1>6. CASE AfterReceive
  <2>1. CASE UNCHANGED <<stats, delivered>>
    BY <1>6, <2>1 DEF AfterReceive, Returned, Call
  <2>2. CASE stats' = Count("rx") /\ delivered' = Append(delivered, Packet(rcv))
    <3>0. Len(delivered') = Len(delivered) + 1
      BY <2>2, AppendProperties
    <3>1. stats' = [stats EXCEPT !.rx = stats.rx + 1]
      BY <2>2 DEF Count
    <3>2. /\ stats'.rx = stats.rx + 1 /\ stats'.rxErr = stats.rxErr /\ stats'.txErr = stats.txErr
          /\ stats'.ready = stats.ready /\ stats'.listening = stats.listening
      BY <3>1 DEF Stats
    <3>3. pc = "receive" /\ pc' \in {"repeat", "loop"}
      BY <1>6 DEF AfterReceive, Returned, Call
    <3> QED
      BY <3>0, <3>2, <3>3
  <2> QED
    BY <1>6, <2>1, <2>2 DEF AfterReceive
<1>7. CASE AfterRepeat
  BY <1>7 DEF AfterRepeat, Returned, Count, Stats
<1> QED
  BY <1>1, <1>2, <1>3, <1>4, <1>5, <1>6, <1>7 DEF Main

\* What main() owes the air grows by one packet where it hands one to
\* transmit_packet, and nowhere else.
LEMMA OwedBegin == IInv /\ pc = "begin" => Owed = <<>>
  BY DEF IInv, Counted, Owed

LEMMA OwedHex ==
  ASSUME IInv, AfterBegin
  PROVE  IF conf.tx = "none" THEN Owed' = Owed ELSE Owed' = Append(Owed, HexPacket)
<1>1. /\ pc = "begin" /\ delivered = <<>> /\ UNCHANGED <<conf, delivered>> /\ stats \in Stats
      /\ stats'.ready = TRUE
  BY MainParts DEF IInv, MainTypeOK, Counted, AfterBegin, Returned, Stats
<1>2. Owed = <<>>
  BY <1>1, OwedBegin
<1>3. CASE conf.tx = "none"
  BY <1>1, <1>2, <1>3 DEF Owed
<1>4. CASE conf.tx # "none"
  <2>1. Owed' = <<HexPacket>> \o <<>>
    BY <1>1, <1>4 DEF Owed, HexPacket
  <2>2. <<HexPacket>> \o <<>> = Append(<<>>, HexPacket)
    OBVIOUS
  <2> QED
    BY <1>2, <1>4, <2>1, <2>2
<1> QED
  BY <1>3, <1>4

LEMMA OwedReceive ==
  ASSUME IInv, AfterReceive
  PROVE  IF rcv.got /\ conf.repeat THEN Owed' = Append(Owed, Packet(rcv)) ELSE Owed' = Owed
<1>1. UNCHANGED conf /\ stats \in Stats /\ delivered \in Seq([data : Content, len : Frame])
  BY MainParts DEF IInv, MainTypeOK, AfterReceive
<1>2. stats'.ready = stats.ready
  BY <1>1 DEF AfterReceive, Count, Stats
<1> DEFINE own == IF stats.ready /\ conf.tx # "none" THEN <<HexPacket>> ELSE <<>>
<1>3. CASE rcv.got /\ conf.repeat
  <2>1. Owed' = own \o Append(delivered, Packet(rcv)) /\ Owed = own \o delivered
    BY <1>1, <1>2, <1>3 DEF AfterReceive, Owed
  <2>2. HexPacket \in [data : Content, len : Content] /\ Packet(rcv) \in [data : Content, len : Content]
    BY MainParts, DriverParts, SlotFacts DEF IInv, DriverData, Received, HexPacket, Packet
  <2>3. own \in Seq([data : Content, len : Content])
    <3>1. /\ <<HexPacket>> \in Seq([data : Content, len : Content])
          /\ <<>> \in Seq([data : Content, len : Content])
      BY <2>2
    <3> QED
      BY <3>1, Zenon
  <2>4. delivered \in Seq([data : Content, len : Content])
    <3>1. [data : Content, len : Frame] \subseteq [data : Content, len : Content]
      BY SlotFacts
    <3> QED
      BY <1>1, <3>1, SeqMonotonic
  <2> HIDE DEF own
  <2> QED
    BY <1>3, <2>1, <2>2, <2>3, <2>4
<1>4. CASE ~(rcv.got /\ conf.repeat)
  <2>1. ~conf.repeat \/ UNCHANGED delivered
    BY <1>4 DEF AfterReceive
  <2> QED
    BY <1>1, <1>2, <1>4, <2>1 DEF Owed
<1> QED
  BY <1>3, <1>4

LEMMA MainSending == IInv /\ Main => Sending'
<1> SUFFICES ASSUME IInv, Main PROVE Sending'
  OBVIOUS
<1>1. UNCHANGED <<mode, irq, fifo, ptr, txlen, aired, since>>
  BY DEF Main, AfterReset, AfterVersion, AfterBegin, AfterTxHex, AfterListen, LoopHead, CheckRadio,
     DioReadFails, AfterReceive, AfterRepeat, CallFailed, chip, regs, hist
<1>2. stats \in Stats
  BY MainParts DEF IInv, MainTypeOK
<1> USE DEF Sending, Unsent, Sent, Carried
<1>3. CASE AfterReset \/ AfterVersion
  <2>1. Owed' = Owed
    BY <1>3, OwedSame DEF AfterReset, AfterVersion
  <2> QED
    BY <1>1, <1>3, <2>1 DEF AfterReset, AfterVersion, Returned, Call, Leave, IInv, Configured
<1>4. CASE AfterBegin
  <2>1. mode = "STDBY" /\ aired = <<>> /\ stats.tx = 0 /\ Owed = <<>> /\ stats'.tx = stats.tx
    BY <1>2, <1>4, OwedBegin DEF IInv, Configured, Counted, AfterBegin, Returned, Stats
  <2>2. CASE conf.tx = "none"
    BY <1>1, <1>4, <2>1, <2>2, OwedHex DEF AfterBegin, Call
  <2>3. CASE conf.tx # "none"
    <3>1. Owed' = Append(aired, HexPacket) /\ Carried' = HexPacket
      BY <1>4, <2>1, <2>3, OwedHex DEF AfterBegin, HexPacket
    <3>2. pc' = "txhex" /\ step' = "t_size"
      BY <1>4, <2>3 DEF AfterBegin, Call
    <3> QED
      BY <1>1, <2>1, <3>1, <3>2 DEF LoadSteps, RSteps
  <2> QED
    BY <2>2, <2>3
<1>5. CASE AfterTxHex \/ AfterRepeat
  <2>1. stats'.tx = stats.tx + 1 /\ Owed' = Owed
    BY <1>2, <1>5, OwedSame DEF AfterTxHex, AfterRepeat, Count, Stats
  <2> QED
    BY <1>1, <1>5, <2>1 DEF AfterTxHex, AfterRepeat, Returned, Call, IInv
<1>6. CASE AfterListen \/ LoopHead \/ CheckRadio \/ DioReadFails
  <2>1. Owed' = Owed /\ stats'.tx = stats.tx
    BY <1>2, <1>6, OwedSame DEF AfterListen, LoopHead, CheckRadio, DioReadFails, Stats
  <2> QED
    BY <1>1, <1>6, <2>1 DEF AfterListen, LoopHead, CheckRadio, DioReadFails, Returned, Call, Leave, IInv
<1>7. CASE AfterReceive
  <2>1. mode # "TX" /\ aired = Owed /\ stats.tx = Len(aired) /\ stats'.tx = stats.tx
    BY <1>2, <1>7 DEF AfterReceive, Returned, IInv, Count, Stats
  <2>2. CASE rcv.got /\ conf.repeat
    <3>1. Owed' = Append(aired, Packet(rcv)) /\ Carried' = Packet(rcv)
      BY <1>7, <2>1, <2>2, OwedReceive DEF AfterReceive, Packet
    <3>2. pc' = "repeat" /\ step' = "t_size"
      BY <1>7, <2>2 DEF AfterReceive, Call
    <3> QED
      BY <1>1, <2>1, <3>1, <3>2 DEF LoadSteps, RSteps
  <2>3. CASE ~(rcv.got /\ conf.repeat)
    BY <1>1, <1>7, <2>1, <2>3, OwedReceive DEF AfterReceive
  <2> QED
    BY <2>2, <2>3
<1>8. CASE CallFailed
  <2>1. Owed' = Owed
    BY <1>2, <1>8, OwedSame DEF CallFailed, Count, Stats
  <2> QED
    BY <1>1, <1>8, <2>1 DEF CallFailed, Leave, IInv
<1> QED
  BY <1>3, <1>4, <1>5, <1>6, <1>7, <1>8 DEF Main

-----------------------------------------------------------------------------
(* The chip's own steps and the rest.                                      *)

LEMMA ChipStepIInv ==
  IInv /\ ChipStep => Place' /\ Configured' /\ Listening' /\ Counted' /\ Sending'
<1> SUFFICES ASSUME IInv, ChipStep
             PROVE  Place' /\ Configured' /\ Listening' /\ Counted' /\ Sending'
  OBVIOUS
<1>1. Place' /\ Counted' /\ Owed' = Owed
  BY OwedSame DEF ChipStep, driver, main, IInv, Place, Counted
<1>2. CASE Hear
  <2>1. mode = "RXCONT" /\ UNCHANGED <<mode, dio, ptr, txlen, cfg, aired, since, driver, main>>
    BY <1>2 DEF Hear, ChipStep
  <2>2. Configured' /\ Listening'
    BY <2>1 DEF IInv, Configured, Listening, driver, main
  <2>3. Sending'
    BY <1>1, <2>1 DEF IInv, Sending, Unsent, Sent, Carried, driver, locals, main, LoadSteps, RSteps
  <2> QED
    BY <1>1, <2>2, <2>3
<1>3. CASE FinishTx
  <2>1. /\ mode = "TX" /\ mode' = "STDBY"
        /\ aired' = Append(aired, [data |-> fifo[0], len |-> txlen])
        /\ UNCHANGED <<dio, fifo, ptr, txlen, cfg, since, driver, main>>
    BY <1>3 DEF FinishTx, ChipStep
  <2>2. Configured' /\ Listening'
    BY <2>1 DEF IInv, Configured, Listening, driver, main
  <2>3. Len(aired') = Len(aired) + 1
    <3>1. [data |-> fifo[0], len |-> txlen] \in [data : Content, len : Content]
      BY MainParts, ChipParts, SlotFacts DEF IInv, ChipData
    <3> QED
      BY <2>1, <3>1, AppendProperties, MainParts, ChipParts DEF IInv, ChipData
  <2>4. Sending'
    BY <1>1, <2>1, <2>3 DEF IInv, Configured, Sending, Unsent, Sent, Carried, driver, locals, main,
       LoadSteps, RSteps
  <2> QED
    BY <1>1, <2>2, <2>4
<1> QED
  BY <1>2, <1>3 DEF ChipStep

LEMMA OtherIInv ==
  IInv /\ (HandleSignal \/ Crash \/ (DeadlinePasses /\ UNCHANGED main) \/ UNCHANGED vars)
    => Place' /\ Configured' /\ Listening' /\ Counted' /\ Sending'
<1> SUFFICES ASSUME IInv,
                    HandleSignal \/ Crash \/ (DeadlinePasses /\ UNCHANGED main) \/ UNCHANGED vars
             PROVE  Place' /\ Configured' /\ Listening' /\ Counted' /\ Sending'
  OBVIOUS
<1>1. /\ UNCHANGED <<chip, step, ok, payload, conf, stats, delivered>>
      /\ pc' = pc \/ pc' = "down"
  BY DEF HandleSignal, Crash, DeadlinePasses, vars, main, driver, locals
<1>2. Owed' = Owed
  BY <1>1, OwedSame
<1>3. Place' /\ Configured' /\ Listening' /\ Counted'
  BY <1>1 DEF IInv, Place, Configured, Listening, Counted, chip, regs, hist
<1>4. Sending'
  BY <1>1, <1>2 DEF IInv, Sending, Unsent, Sent, Carried, chip, regs, hist
<1> QED
  BY <1>3, <1>4

LEMMA NextIInv == IInv /\ [Next]_vars => IInv'
<1> SUFFICES ASSUME IInv, [Next]_vars PROVE IInv'
  OBVIOUS
<1>1. TypeOK'
  BY NextTypeOK DEF IInv
<1>2. CASE DriverStep
  <2>1. Counted'
    BY <1>2 DEF DriverStep, main, IInv, Counted
  <2> QED
    BY <1>1, <1>2, <2>1, DriverPlace, DriverConfigured, DriverListening, DriverSending DEF IInv
<1>3. CASE Start \/ Main
  BY <1>1, <1>3, StartIInv, MainPlace, MainCounted, MainSending DEF IInv
<1>4. CASE ChipStep \/ HandleSignal \/ Crash \/ (DeadlinePasses /\ UNCHANGED main) \/ UNCHANGED vars
  BY <1>1, <1>4, ChipStepIInv, OtherIInv DEF IInv
<1> QED
  BY <1>2, <1>3, <1>4 DEF Next, System, Clock

LEMMA InitIInv == Init => IInv
<1> SUFFICES ASSUME Init PROVE IInv
  OBVIOUS
<1>1. pc = "down" /\ since = -1
  BY DEF Init, ChipInit
<1>2. Place /\ Configured /\ Listening /\ Counted /\ Sending
  BY <1>1 DEF Place, Configured, Listening, Counted, Sending
<1> QED
  BY <1>2, InitTypeOK DEF IInv

\* The inductive invariant holds throughout.
THEOREM Invariance == Spec => []IInv
  BY InitIInv, NextIInv, PTL DEF Spec

\* A process that has taken the chip never lets it receive or send with modem
\* registers that are not its own.
THEOREM ConfiguredCorrect == Spec => []ConfiguredOnAir
<1>1. IInv => ConfiguredOnAir
  BY DEF IInv, Configured, ConfiguredOnAir
<1> QED
  BY <1>1, Invariance, PTL

\* What the web server can show of DaemonStats is true, and whenever it can be
\* asked the chip is listening.
THEOREM StatsCorrect == Spec => []ServedStatsAreTrue
<1>1. IInv => ServedStatsAreTrue
  BY DEF IInv, Configured, Listening, Counted, Sending, ServedStatsAreTrue
<1> QED
  BY <1>1, Invariance, PTL

-----------------------------------------------------------------------------
(* The daemon implements StoreAndForward.                                  *)

\* Only the write that takes the chip touches what was sent and since when.
LEMMA DriverHistory ==
  Driver => Write("b_sleep", "b_version", Sleep) \/ UNCHANGED <<aired, since>>
<1>1. CASE HardwareReset \/ ReadVersion \/ RxContinuous
  BY <1>1 DEF HardwareReset, ReadVersion, RxContinuous, Write, ResetChip, SetMode, SetDio, ClearIrq,
     SetPtr, chip, regs, hist
<1>2. CASE BeginLora
  BY <1>2 DEF BeginLora, Write, SetModem, SetMode, chip, regs, hist
<1>3. CASE ReceivePacket
  BY <1>3 DEF ReceivePacket, ReadFlags, DropBadFrame, ReadPacket, ReadPayload, AckPacket,
     Read, Write, ReadFifo, ClearIrq, SetPtr, chip, regs, hist
<1>4. CASE TransmitPacket
  BY <1>4 DEF TransmitPacket, CheckSize, LoadPacket, CheckDeadline, PollTxDone, AckTxDone,
     Write, SetMode, SetDio, ClearIrq, SetPtr, SetLength, WriteFifo, chip, regs, hist
<1>5. CASE TransferLost
  BY <1>5 DEF TransferLost, chip, regs, hist
<1> QED
  BY <1>1, <1>2, <1>3, <1>4, <1>5 DEF Driver

\* A driver step loses what is owed only by taking the chip.
LEMMA DriverRepeats ==
  IInv /\ DriverStep => UNCHANGED <<OwedNow, SentNow>>
<1> SUFFICES ASSUME IInv, pc # "down", Driver, UNCHANGED main PROVE UNCHANGED <<OwedNow, SentNow>>
  BY DEF DriverStep
<1>o. Owed' = Owed
  BY OwedSame DEF main
<1>1. CASE Write("b_sleep", "b_version", Sleep)
  <2>1. pc = "begin"
    BY <1>1, SiteOfStep, MainParts DEF IInv, MainTypeOK, Write, Transfer
  <2>2. Owed = <<>> /\ (since >= 0 => aired = <<>>)
    BY <2>1, OwedBegin DEF IInv, Sending
  <2>3. OwedNow' = <<>> /\ OwedNow = <<>> /\ SentNow = <<>>
    BY <1>o, <2>2 DEF OwedNow, SentNow
  <2>4. SentNow' = <<>>
    BY <1>1, <2>2 DEF Write, Sleep, SentNow, chip, regs, hist
  <2> QED
    BY <2>3, <2>4
<1>2. CASE UNCHANGED <<aired, since>>
  BY <1>o, <1>2 DEF OwedNow, SentNow
<1> QED
  BY <1>1, <1>2, DriverHistory

\* main() accepts a packet only when every earlier one has been sent.
LEMMA MainRepeats ==
  IInv /\ Main => Repeater!Accept \/ UNCHANGED <<OwedNow, SentNow>>
<1> SUFFICES ASSUME IInv, Main PROVE Repeater!Accept \/ UNCHANGED <<OwedNow, SentNow>>
  OBVIOUS
<1>1. UNCHANGED <<aired, since>> /\ SentNow' = SentNow
  BY DEF Main, AfterReset, AfterVersion, AfterBegin, AfterTxHex, AfterListen, LoopHead, CheckRadio,
     DioReadFails, AfterReceive, AfterRepeat, CallFailed, chip, regs, hist, SentNow
<1>2. stats \in Stats
  BY MainParts DEF IInv, MainTypeOK
<1>3. CASE AfterBegin
  <2>1. since >= 0 /\ aired = <<>> /\ Owed = <<>>
    BY <1>3, OwedBegin DEF AfterBegin, Returned, IInv, Configured, Sending
  <2>2. OwedNow = Owed /\ OwedNow' = Owed' /\ SentNow = OwedNow
    BY <1>1, <2>1 DEF OwedNow, SentNow
  <2>3. HexPacket \in [data : Content, len : Content]
    BY SlotFacts DEF HexPacket
  <2> QED
    BY <1>1, <1>3, <2>2, <2>3, OwedHex DEF Repeater!Accept
<1>4. CASE AfterReceive
  <2>1. since >= 0 /\ aired = Owed
    BY <1>4 DEF AfterReceive, Returned, IInv, Configured, Sending
  <2>2. OwedNow = Owed /\ OwedNow' = Owed' /\ SentNow = OwedNow
    BY <1>1, <2>1 DEF OwedNow, SentNow
  <2>3. Packet(rcv) \in [data : Content, len : Content]
    BY MainParts, DriverParts, SlotFacts DEF IInv, DriverData, Received, Packet
  <2> QED
    BY <1>1, <1>4, <2>2, <2>3, OwedReceive DEF Repeater!Accept
<1>5. CASE ~AfterBegin /\ ~AfterReceive
  <2>1. UNCHANGED <<conf, delivered>> /\ stats'.ready = stats.ready
    BY <1>2, <1>5 DEF Main, AfterReset, AfterVersion, AfterTxHex, AfterListen, LoopHead, CheckRadio,
       DioReadFails, AfterRepeat, CallFailed, Count, Stats
  <2> QED
    BY <1>1, <2>1, OwedSame DEF OwedNow
<1> QED
  BY <1>3, <1>4, <1>5

LEMMA ChipRepeats ==
  IInv /\ ChipStep => Repeater!Transmit \/ UNCHANGED <<OwedNow, SentNow>>
<1> SUFFICES ASSUME IInv, ChipStep
             PROVE  Repeater!Transmit \/ UNCHANGED <<OwedNow, SentNow>>
  OBVIOUS
<1>1. UNCHANGED since /\ Owed' = Owed /\ OwedNow' = OwedNow
  BY OwedSame DEF ChipStep, Hear, FinishTx, driver, main, OwedNow
<1>2. CASE Hear
  BY <1>1, <1>2 DEF Hear, SentNow
<1>3. CASE FinishTx
  <2> DEFINE p == [data |-> fifo[0], len |-> txlen]
  <2>1. mode = "TX" /\ aired' = Append(aired, p)
    BY <1>3 DEF FinishTx
  <2>2. CASE since >= 0
    <3>1. Owed = Append(aired, p)
      BY <2>1, <2>2 DEF IInv, Sending
    <3>2. p \in [data : Content, len : Content] /\ aired \in Seq([data : Content, len : Content])
      BY MainParts, ChipParts, SlotFacts DEF IInv, ChipData
    <3>3. OwedNow = Owed /\ SentNow = aired /\ SentNow' = aired'
      BY <1>1, <2>2 DEF OwedNow, SentNow
    <3> HIDE DEF p
    <3>4. /\ Len(Append(aired, p)) = Len(aired) + 1
          /\ Append(aired, p)[Len(aired) + 1] = p
      BY <3>2, AppendProperties
    <3>5. Len(aired) < Len(Append(aired, p))
      BY <3>2, <3>4
    <3> QED
      BY <1>1, <2>1, <3>1, <3>3, <3>4, <3>5 DEF Repeater!Transmit
  <2>3. CASE ~(since >= 0)
    BY <1>1, <2>3 DEF SentNow
  <2> QED
    BY <2>2, <2>3
<1> QED
  BY <1>2, <1>3 DEF ChipStep

LEMMA NextRepeats == IInv /\ [Next]_vars => [Repeater!Next]_<<OwedNow, SentNow>>
<1> SUFFICES ASSUME IInv, [Next]_vars PROVE Repeater!Next \/ UNCHANGED <<OwedNow, SentNow>>
  OBVIOUS
<1>1. CASE Start
  <2>1. since' = -1
    BY <1>1 DEF Start
  <2>2. OwedNow' = <<>> /\ SentNow' = <<>>
    BY <2>1 DEF OwedNow, SentNow
  <2> QED
    BY <2>2 DEF Repeater!Next, Repeater!Restart
<1>2. CASE Main
  BY <1>2, MainRepeats DEF Repeater!Next
<1>3. CASE ChipStep
  BY <1>3, ChipRepeats DEF Repeater!Next
<1>4. CASE DriverStep
  BY <1>4, DriverRepeats
<1>5. CASE HandleSignal \/ Crash \/ (DeadlinePasses /\ UNCHANGED main) \/ UNCHANGED vars
  <2>1. UNCHANGED <<aired, since, conf, stats, delivered>>
    BY <1>5 DEF HandleSignal, Crash, DeadlinePasses, vars, chip, hist, main
  <2> QED
    BY <2>1, OwedSame DEF OwedNow, SentNow
<1> QED
  BY <1>1, <1>2, <1>3, <1>4, <1>5 DEF Next, System, Clock

\* Seen from the air the daemon is a repeater with a queue of one packet: it
\* sends every packet it owes completely, in order and once, and takes on a
\* packet only when it owes none.
THEOREM RepeaterRefinement == Spec => RepeatsFaithfully
<1>1. Init => Repeater!Init
  BY DEF Init, ChipInit, OwedNow, SentNow, Repeater!Init
<1>2. IInv /\ [Next]_vars => [Repeater!Next]_<<OwedNow, SentNow>>
  BY NextRepeats
<1> QED
  BY <1>1, <1>2, Invariance, PTL DEF Spec, RepeatsFaithfully, Repeater!Spec

-----------------------------------------------------------------------------
(* Why a process ends when the hardware has no faults.                     *)

\* Only transmit_packet fails, and only for its argument or its deadline.
NoFailure ==
  ~Faults /\ pc # "down" /\ ~ok =>
    step = "ret" /\ pc \in {"txhex", "repeat"} /\ (expired \/ ~payload.fits)

LEMMA DriverNoFailure == IInv /\ NoFailure /\ DriverStep => NoFailure'
<1> SUFFICES ASSUME IInv, NoFailure, ~Faults, pc # "down", Driver, UNCHANGED main, ~ok'
             PROVE  /\ step' = "ret" /\ pc' \in {"txhex", "repeat"}
                    /\ expired' \/ ~payload'.fits
  BY DEF DriverStep, NoFailure, main
<1>1. step # "ret"
  BY DEF Driver, HardwareReset, ReadVersion, BeginLora, RxContinuous, ReceivePacket, ReadFlags,
     DropBadFrame, ReadPacket, ReadPayload, AckPacket, TransmitPacket, CheckSize, LoadPacket,
     CheckDeadline, PollTxDone, AckTxDone, TransferLost, Write, Read, Transfer
<1>2. ok
  BY <1>1 DEF NoFailure
<1>3. ~TransferLost /\ ~HardwareReset /\ ~ReadVersion /\ ~BeginLora /\ ~RxContinuous
  BY <1>2 DEF TransferLost, HardwareReset, ReadVersion, BeginLora, RxContinuous, Write, Transfer,
     Goto, Fail
<1>4. ~ReceivePacket
  BY <1>2 DEF ReceivePacket, ReadFlags, DropBadFrame, ReadPacket, ReadPayload, AckPacket, Read,
     Write, Transfer, Goto, Fail
<1>5. CheckSize \/ CheckDeadline
  BY <1>2, <1>3, <1>4 DEF Driver, TransmitPacket, LoadPacket, PollTxDone, AckTxDone, Write, Transfer,
     Goto, Fail
<1>6. pc \in {"txhex", "repeat"}
  <2>1. step \in TSteps /\ pc \in Sites
    BY <1>5, MainParts DEF CheckSize, CheckDeadline, TSteps, LoadSteps, IInv, MainTypeOK
  <2> QED
    BY <2>1, SiteOfStep DEF IInv
<1>7. CASE CheckSize
  <2>1. ~payload.fits /\ step' = "ret"
    BY <1>2, <1>7 DEF CheckSize, Goto, Fail
  <2>2. payload' = payload /\ pc' = pc
    BY <1>7 DEF CheckSize, main
  <2> QED
    BY <1>6, <2>1, <2>2
<1>8. CASE CheckDeadline
  <2>1. expired /\ step' = "ret"
    BY <1>2, <1>8 DEF CheckDeadline, Goto, Fail
  <2>2. expired' = expired /\ pc' = pc
    BY <1>8 DEF CheckDeadline, locals, main
  <2>3. expired'
    BY <2>1, <2>2, Zenon
  <2> QED
    BY <1>6, <2>1, <2>2, <2>3
<1> QED
  BY <1>5, <1>7, <1>8

LEMMA OtherNoFailure ==
  NoFailure /\ (Start \/ Main \/ ChipStep \/ HandleSignal \/ Crash
                  \/ (DeadlinePasses /\ UNCHANGED main) \/ UNCHANGED vars) => NoFailure'
<1> USE DEF NoFailure
<1>1. NoFailure /\ (Start \/ Crash) => NoFailure'
  BY DEF Start, Call, Crash
<1>2. ASSUME NoFailure, Main PROVE NoFailure'
  <2>1. CASE AfterReset \/ AfterVersion \/ AfterBegin \/ AfterTxHex \/ AfterListen
    BY <1>2, <2>1 DEF AfterReset, AfterVersion, AfterBegin, AfterTxHex, AfterListen, Returned, Call,
       Leave, driver
  <2>2. CASE LoopHead \/ CheckRadio \/ DioReadFails
    BY <1>2, <2>2 DEF LoopHead, CheckRadio, DioReadFails, Call, Leave, driver
  <2>3. CASE AfterReceive \/ AfterRepeat \/ CallFailed
    BY <1>2, <2>3 DEF AfterReceive, AfterRepeat, CallFailed, Returned, Call, Leave, driver
  <2> QED
    BY <1>2, <2>1, <2>2, <2>3 DEF Main
<1>3. NoFailure /\ (ChipStep \/ HandleSignal \/ UNCHANGED vars) => NoFailure'
  BY DEF ChipStep, HandleSignal, vars, driver, locals, main
<1>4. NoFailure /\ DeadlinePasses /\ UNCHANGED main => NoFailure'
  BY DEF DeadlinePasses, main
<1> QED
  BY <1>1, <1>2, <1>3, <1>4

\* On hardware without faults a process ends only for a signal, --probe, the
\* transmission deadline, or a payload that transmit_packet refuses.
THEOREM EndsCorrect == Spec => EndsOnlyFor
<1>1. Init => NoFailure
  BY DEF Init, NoFailure
<1>2. IInv /\ NoFailure /\ [Next]_vars => NoFailure'
  BY DriverNoFailure, OtherNoFailure DEF Next, System, Clock
<1>3. IInv /\ NoFailure /\ [Next]_vars =>
        [ ~Faults /\ pc # "down" /\ pc' = "down" =>
            \/ ~running \/ conf.probe
            \/ pc \in {"txhex", "repeat"} /\ (expired \/ ~payload.fits) ]_vars
  <2> SUFFICES ASSUME NoFailure, Next, ~Faults, pc # "down", pc' = "down"
               PROVE  \/ ~running \/ conf.probe
                      \/ pc \in {"txhex", "repeat"} /\ (expired \/ ~payload.fits)
    OBVIOUS
  <2>1. AfterVersion \/ LoopHead \/ CallFailed
    BY DEF Next, System, Clock, Start, Main, AfterReset, AfterBegin, AfterTxHex, AfterListen, CheckRadio,
       DioReadFails, AfterReceive, AfterRepeat, Returned, Call, Crash, HandleSignal, DriverStep,
       ChipStep, main
  <2> QED
    BY <2>1 DEF AfterVersion, LoopHead, CallFailed, Call, NoFailure
<1> QED
  BY <1>1, <1>2, <1>3, Invariance, PTL DEF Spec, EndsOnlyFor

-----------------------------------------------------------------------------
(* A packet is delivered once, in order, and intact when nothing came       *)
(* between the reads.  DInv follows a frame from Hear, which raises RxDone, *)
(* through the reads of receive_packet, to main().                          *)

\* Newer than everything delivered, and heard by this process.
Fresh(n) == n > since /\ \A i \in DOMAIN delivered : delivered[i].len < n

\* Slot s holds the bytes of the last frame; or that one is empty, and the
\* next frame goes there.
Holds(s) == fifo[s] = rx.id \/ (Empty(rx.id) /\ s = wr)

\* The same, or another frame that this process heard has come to s.
Filled(s) == fifo[s] > since \/ (Empty(rx.id) /\ s = wr)

Pin == conf.dio0
GoodFrame(n) == heard[n].good

\* RxDone is about the last frame, which was not delivered.
Pending ==
  "RX_DONE" \in irq =>
    /\ rx.id = Len(heard) /\ Fresh(rx.id) /\ Holds(rx.slot)
    /\ Pin /\ "CRC_ERROR" \notin irq => GoodFrame(rx.id)

HasPacket == pc = "receive" /\ step = "ret" /\ ok /\ rcv.got
NoPacket == pc = "receive" /\ step = "ret" /\ ok /\ ~rcv.got

\* Where the next frame is waited for.
Waits ==
  \/ pc \in {"loop", "tick"}
  \/ pc = "receive" /\ step \in {"p_irq", "p_crc"}
  \/ NoPacket
  \/ pc \in {"listen", "txhex", "repeat"} /\ step = "ret" /\ ok

Arrivals ==
  /\ rx.id <= Len(heard)
  /\ \A i \in DOMAIN delivered : delivered[i].len <= Len(heard)
  /\ pc \in {"listen", "txhex", "repeat"} /\ step \in {"r_ptr", "r_mode"} => "RX_DONE" \notin irq
  /\ Waits => Pending
  /\ HasPacket => Pending /\ ("RX_DONE" \in irq => rcv.len < rx.id)

Reads == {"p_addr", "p_len", "p_snr", "p_rssi", "p_ptr", "p_fifo", "p_clear"}
AfterLen == {"p_snr", "p_rssi", "p_ptr", "p_fifo"}

\* What receive_packet has read is about frames that were not delivered.
Reading ==
  pc = "receive" =>
    /\ Pin /\ step = "p_irq" => "RX_DONE" \in irq
    /\ Pin /\ step = "p_crc" => "RX_DONE" \in seen
    /\ step = "p_crc" \/ step \in Reads => ~rcv.got
    /\ step \in Reads => "RX_DONE" \in seen /\ Fresh(rx.id)
    /\ step \in Reads \/ HasPacket => mark \in 1 .. Len(heard) /\ (Pin => GoodFrame(mark))
    /\ step = "p_addr" => Filled(rx.slot)
    /\ step = "p_len" => Filled(rcv.slot)
    /\ step \in AfterLen \/ step = "p_clear" \/ HasPacket => Fresh(rcv.len) /\ rcv.len <= Len(heard)
    /\ step \in AfterLen => fifo[rcv.slot] > since \/ Empty(rcv.len)
    /\ step = "p_fifo" => ptr = rcv.slot
    /\ step = "p_clear" \/ HasPacket => rcv.data = Garbage \/ rcv.data > since

\* As long as no frame has come since the flags were read, what has been read
\* is about the one frame.
Whole ==
  pc = "receive" =>
    /\ mark = Len(heard) =>
         /\ step \in Reads => rx.id = mark
         /\ step = "p_addr" => fifo[rx.slot] = mark \/ Empty(mark)
         /\ step = "p_len" \/ step \in AfterLen => fifo[rcv.slot] = mark \/ Empty(mark)
         /\ step \in AfterLen => rcv.len = mark
         /\ step \in {"p_rssi", "p_ptr", "p_fifo"} => rcv.snr = mark
         /\ step \in {"p_ptr", "p_fifo"} => rcv.rssi = mark
    /\ (step = "p_clear" \/ HasPacket) /\ rcv.clean =>
         /\ rcv.len = mark /\ rcv.snr = mark /\ rcv.rssi = mark
         /\ Empty(mark) \/ rcv.data = mark

DInv == Arrivals /\ Reading /\ Whole /\ DeliveredOnceInOrder

\* What the proofs need of the types.
Numbers ==
  /\ Len(heard) \in Nat /\ since \in Int /\ since <= Len(heard)
  /\ rx.id \in Int /\ rx.slot \in Slot /\ wr \in Slot /\ mark \in Nat
  /\ rcv.slot \in Slot /\ rcv.len \in Int /\ rcv.data \in Int
  /\ \A s \in Slot : fifo[s] \in Int
  /\ DOMAIN delivered = 1 .. Len(delivered) /\ Len(delivered) \in Nat
  /\ \A i \in DOMAIN delivered : delivered[i].len \in Int

LEMMA TypesNumbers == TypeOK => Numbers
<1> SUFFICES ASSUME TypeOK PROVE Numbers
  OBVIOUS
<1>1. ChipData /\ DriverData /\ delivered \in Seq([data : Content, len : Frame])
  BY MainParts, ChipParts, DriverParts DEF MainTypeOK
<1>2. Content \subseteq Int /\ Frame \subseteq Int
  BY ChipAssumption DEF Content, Frame, Hex, Garbage
<1>3. Len(heard) \in Nat /\ since \in Int /\ since <= Len(heard)
  BY <1>1 DEF ChipData
<1>4. rx.id \in Int /\ rx.slot \in Slot /\ wr \in Slot /\ \A s \in Slot : fifo[s] \in Int
  BY <1>1, <1>2 DEF ChipData
<1>5. mark \in Nat /\ rcv.slot \in Slot /\ rcv.len \in Int /\ rcv.data \in Int
  BY <1>1, <1>2 DEF DriverData, Received
<1>6. /\ DOMAIN delivered = 1 .. Len(delivered) /\ Len(delivered) \in Nat
      /\ \A i \in DOMAIN delivered : delivered[i].len \in Int
  <2> DEFINE R == [data : Content, len : Frame]
  <2>0. delivered \in Seq(R)
    BY <1>1
  <2> HIDE DEF R
  <2>1. /\ DOMAIN delivered = 1 .. Len(delivered) /\ Len(delivered) \in Nat
        /\ \A i \in 1 .. Len(delivered) : delivered[i] \in R
    BY <2>0
  <2> USE DEF R
  <2>2. \A r \in [data : Content, len : Frame] : r.len \in Int
    BY <1>2
  <2> QED
    BY <2>1, <2>2
<1> QED
  BY <1>3, <1>4, <1>5, <1>6 DEF Numbers

\* A frame completes: it is the last one, and stays what it is.
LEMMA HearFacts ==
  ASSUME TypeOK, Hear, NEW id, id = Len(heard) + 1
  PROVE  /\ Len(heard') = id
         /\ \A n \in 1 .. Len(heard) : (Empty(n)' <=> Empty(n)) /\ (GoodFrame(n)' <=> GoodFrame(n))
         /\ rx'.id = id /\ rx'.slot = wr
         /\ "RX_DONE" \in irq'
         /\ "CRC_ERROR" \notin irq' => GoodFrame(id)'
         /\ \/ fifo' = fifo /\ wr' = wr /\ Empty(id)'
            \/ fifo'[wr] = id /\ \A s \in Slot : s # wr => fifo'[s] = fifo[s]
         /\ UNCHANGED <<ptr, since>>
<1>1. PICK kind \in FrameKinds :
        /\ heard' = Append(heard, kind)
        /\ irq' = irq \union (IF kind.good THEN {"RX_DONE"} ELSE {"RX_DONE", "CRC_ERROR"})
        /\ rx' = [slot |-> wr, id |-> id]
        /\ fifo' = IF kind.empty THEN fifo ELSE [fifo EXCEPT ![wr] = id]
        /\ wr' = IF kind.empty THEN wr ELSE After(wr)
  BY DEF Hear
<1>2. ChipData
  BY MainParts, ChipParts
<1>3. heard \in Seq(FrameKinds) /\ wr \in Slot /\ fifo \in [Slot -> Content]
  BY <1>2 DEF ChipData
<1>4. /\ Len(heard) \in Nat /\ Len(heard') = id /\ heard'[id] = kind
      /\ \A n \in 1 .. Len(heard) : heard'[n] = heard[n]
  BY <1>1, <1>3
<1>5. \A n \in 1 .. Len(heard) : (Empty(n)' <=> Empty(n)) /\ (GoodFrame(n)' <=> GoodFrame(n))
  <2> SUFFICES ASSUME NEW n \in 1 .. Len(heard)
               PROVE  (Empty(n)' <=> Empty(n)) /\ (GoodFrame(n)' <=> GoodFrame(n))
    OBVIOUS
  <2>1. heard'[n] = heard[n] /\ n \in 1 .. Len(heard')
    BY <1>4
  <2> QED
    BY <2>1, Zenon DEF Empty, GoodFrame
<1>6. (Empty(id)' <=> kind.empty) /\ (GoodFrame(id)' <=> kind.good)
  <2>1. id \in 1 .. Len(heard') /\ heard'[id] = kind
    BY <1>4
  <2> QED
    BY <2>1, Zenon DEF Empty, GoodFrame
<1>7. "RX_DONE" \in irq' /\ ("CRC_ERROR" \notin irq' => kind.good)
  BY <1>1
<1>8. \/ kind.empty /\ fifo' = fifo /\ wr' = wr
      \/ ~kind.empty /\ fifo' = [fifo EXCEPT ![wr] = id]
  BY <1>1
<1>9. \/ kind.empty /\ fifo' = fifo /\ wr' = wr
      \/ /\ fifo'[wr] = id
         /\ \A s \in Slot : s # wr => fifo'[s] = fifo[s]
  BY <1>3, <1>8
<1>10. rx'.id = id /\ rx'.slot = wr
  BY <1>1
<1>11. UNCHANGED <<ptr, since>>
  BY DEF Hear
<1> QED
  BY <1>4, <1>5, <1>6, <1>7, <1>9, <1>10, <1>11

LEMMA HearDInv == IInv /\ DInv /\ Hear /\ UNCHANGED <<driver, main>> => DInv'
<1> SUFFICES ASSUME TypeOK, Configured, Listening, DInv, Hear, UNCHANGED <<driver, main>>
             PROVE  DInv'
  BY DEF IInv
<1>0. Numbers
  BY TypesNumbers
<1>a. PICK id : id = Len(heard) + 1
  OBVIOUS
<1>1. UNCHANGED <<pc, step, ok, seen, rcv, mark, conf, delivered>>
  BY DEF driver, locals, main
<1>2. /\ (HasPacket' <=> HasPacket) /\ (Waits' <=> Waits) /\ (Pin' <=> Pin)
      /\ (rcv.got' <=> rcv.got)
  BY <1>1, Zenon DEF HasPacket, NoPacket, Waits, Pin
<1>3. /\ Len(heard') = id /\ rx'.id = id /\ rx'.slot = wr /\ since' = since /\ ptr' = ptr
      /\ \/ fifo' = fifo /\ wr' = wr /\ Empty(id)'
         \/ fifo'[wr] = id /\ \A s \in Slot : s # wr => fifo'[s] = fifo[s]
  BY <1>a, HearFacts
<1>k. \A n \in 1 .. Len(heard) : (Empty(n)' <=> Empty(n)) /\ (GoodFrame(n)' <=> GoodFrame(n))
  BY <1>a, HearFacts
<1>4. Fresh(id)' /\ \A n : Fresh(n)' <=> Fresh(n)
  BY <1>0, <1>a, <1>1, <1>3 DEF Fresh, DInv, Arrivals, Numbers
<1>5. Pending'
  <2>1. fifo'[wr] = id \/ (Empty(id)' /\ wr = wr')
    BY <1>3
  <2>2. Fresh(rx.id)' /\ Empty(rx.id)' = Empty(id)' /\ GoodFrame(rx.id)' = GoodFrame(id)'
    BY <1>3, <1>4 DEF Fresh, Empty, GoodFrame
  <2>3. Holds(rx.slot)'
    BY <1>3, <2>1, <2>2 DEF Holds
  <2>4. "CRC_ERROR" \notin irq' => GoodFrame(rx.id)'
    BY <1>a, <2>2, HearFacts
  <2> QED
    BY <1>3, <2>2, <2>3, <2>4 DEF Pending
<1>6. Arrivals'
  <2>1. pc \in {"listen", "txhex", "repeat"} => step \notin {"r_ptr", "r_mode"}
    BY DEF Hear, Listening
  <2>2. \A i \in DOMAIN delivered : delivered[i].len <= id
    BY <1>0, <1>a DEF DInv, Arrivals, Numbers
  <2>3. HasPacket => rcv.len < id
    BY <1>0, <1>a DEF DInv, Reading, HasPacket, Numbers
  <2> QED
    BY <1>0, <1>1, <1>2, <1>3, <1>5, <2>1, <2>2, <2>3, <1>a DEF Arrivals, Numbers
<1>m. \A n : Empty(n) => Empty(n)'
  BY <1>k DEF Empty
<1>n. \A t \in Slot : fifo[t] > since => fifo'[t] > since'
  BY <1>0, <1>a, <1>3 DEF Numbers
<1>o. id > since
  BY <1>0, <1>a DEF Numbers
<1>7. Reading'
  <2> SUFFICES ASSUME pc = "receive" PROVE Reading'
    BY <1>1 DEF Reading
  <2>1. "RX_DONE" \in irq' /\ Fresh(rx.id)'
    BY <1>3, <1>4, <1>a, HearFacts DEF Fresh
  <2>2. step \in Reads \/ HasPacket =>
          mark' \in 1 .. Len(heard') /\ (Pin' => GoodFrame(mark)')
    <3>1. step \in Reads \/ HasPacket => mark \in 1 .. Len(heard) /\ (Pin => GoodFrame(mark))
      BY DEF DInv, Reading
    <3>2. step \in Reads \/ HasPacket => (GoodFrame(mark)' <=> GoodFrame(mark))
      BY <1>1, <1>k, <3>1 DEF GoodFrame
    <3>3. \A n \in 1 .. Len(heard) : n \in 1 .. Len(heard')
      BY <1>0, <1>a, <1>3 DEF Numbers
    <3> QED
      BY <1>1, <1>2, <3>1, <3>2, <3>3
  <2>3. step = "p_addr" => Filled(rx.slot)'
    <3>1. fifo'[wr] > since' \/ (Empty(rx.id)' /\ wr = wr')
      BY <1>3, <1>o DEF Empty
    <3> QED
      BY <1>3, <3>1 DEF Filled
  <2>4. step = "p_len" => Filled(rcv.slot)'
    <3>1. step = "p_len" => fifo[rcv.slot] > since \/ rcv.slot = wr
      BY DEF DInv, Reading, Filled
    <3>2. fifo[rcv.slot] > since => fifo'[rcv.slot] > since'
      BY <1>0, <1>n DEF Numbers
    <3>3. fifo'[wr] > since' \/ (Empty(rx.id)' /\ wr = wr')
      BY <1>3, <1>o DEF Empty
    <3> QED
      BY <1>1, <3>1, <3>2, <3>3 DEF Filled
  <2>5. step \in AfterLen \/ step = "p_clear" \/ HasPacket =>
          Fresh(rcv.len)' /\ rcv'.len <= Len(heard')
    <3>1. step \in AfterLen \/ step = "p_clear" \/ HasPacket => Fresh(rcv.len) /\ rcv.len <= Len(heard)
      BY DEF DInv, Reading
    <3>2. Fresh(rcv.len) => Fresh(rcv.len)'
      BY <1>1, <1>4 DEF Fresh
    <3> QED
      BY <1>0, <1>1, <1>3, <1>a, <3>1, <3>2 DEF Numbers
  <2>6. step \in AfterLen => fifo'[rcv'.slot] > since' \/ Empty(rcv.len)'
    <3>1. step \in AfterLen => fifo[rcv.slot] > since \/ Empty(rcv.len)
      BY DEF DInv, Reading
    <3>2. Empty(rcv.len) => Empty(rcv.len)'
      BY <1>1, <1>m DEF Empty
    <3> QED
      BY <1>0, <1>1, <1>n, <3>1, <3>2 DEF Numbers
  <2>7. /\ Pin /\ step = "p_crc" => "RX_DONE" \in seen
        /\ step = "p_crc" \/ step \in Reads => ~rcv.got
        /\ step \in Reads => "RX_DONE" \in seen
        /\ step = "p_fifo" => ptr = rcv.slot
        /\ step = "p_clear" \/ HasPacket => rcv.data = Garbage \/ rcv.data > since
    BY DEF DInv, Reading
  <2> QED
    BY <1>1, <1>2, <1>3, <2>1, <2>2, <2>3, <2>4, <2>5, <2>6, <2>7 DEF Reading
<1>8. Whole'
  <2> SUFFICES ASSUME pc = "receive" PROVE Whole'
    BY <1>1 DEF Whole
  <2>1. step \in Reads \/ HasPacket => mark \in 1 .. Len(heard)
    BY DEF DInv, Reading
  <2>2. step \in Reads \/ HasPacket => mark' # Len(heard')
    BY <1>0, <1>1, <1>3, <1>a, <2>1 DEF Numbers
  <2>3. step \in AfterLen => step \in Reads
    BY DEF AfterLen, Reads
  <2>4. (step = "p_clear" \/ HasPacket) /\ rcv.clean =>
          /\ rcv.len = mark /\ rcv.snr = mark /\ rcv.rssi = mark
          /\ Empty(mark) \/ rcv.data = mark
    BY DEF DInv, Whole
  <2>5. Empty(mark) => Empty(mark)'
    BY <1>1, <1>m DEF Empty
  <2> QED
    BY <1>1, <1>2, <2>2, <2>3, <2>4, <2>5 DEF Whole, Reads
<1>9. DeliveredOnceInOrder'
  BY <1>1, <1>3 DEF DInv, DeliveredOnceInOrder
<1> QED
  BY <1>6, <1>7, <1>8, <1>9 DEF DInv

\* As long as frames and their bytes stay what they are.
LEMMA SameFrames ==
  ASSUME UNCHANGED <<fifo, rx, wr, heard, since, delivered, conf>>
  PROVE  /\ \A n : (Fresh(n)' <=> Fresh(n)) /\ (Empty(n)' <=> Empty(n))
         /\ \A n : (Filled(n)' <=> Filled(n)) /\ (Holds(n)' <=> Holds(n))
         /\ \A n : GoodFrame(n)' <=> GoodFrame(n)
         /\ Pin' <=> Pin
         /\ DeliveredOnceInOrder => DeliveredOnceInOrder'
BY DEF Fresh, Empty, Filled, Holds, GoodFrame, Pin, DeliveredOnceInOrder

\* Flags may go, as long as those that stay say what they said.
LEMMA SamePending ==
  ASSUME UNCHANGED <<fifo, rx, wr, heard, since, delivered, conf>>,
         irq' \subseteq irq, Pending,
         Pin /\ "CRC_ERROR" \in irq => "CRC_ERROR" \in irq' \/ "RX_DONE" \notin irq'
  PROVE  Pending'
<1>1. Fresh(rx.id)' <=> Fresh(rx.id)
  BY DEF Fresh
<1>2. Holds(rx.slot)' <=> Holds(rx.slot)
  BY DEF Holds, Empty
<1>3. (GoodFrame(rx.id)' <=> GoodFrame(rx.id)) /\ (Pin' <=> Pin)
  BY DEF GoodFrame, Pin
<1>4. rx' = rx /\ heard' = heard
  OBVIOUS
<1> QED
  BY <1>1, <1>2, <1>3, <1>4 DEF Pending

LEMMA ReadFlagsDInv ==
  ASSUME IInv, DInv, pc = "receive", ReadFlags, UNCHANGED main
  PROVE  DInv'
<1>1. /\ step = "p_irq" /\ rcv' = Nothing
      /\ UNCHANGED <<irq, fifo, ptr, rx, wr, heard, since, delivered, conf, pc>>
  BY DEF ReadFlags, chip, regs, hist, main
<1>2. /\ ~rcv'.got /\ ~rcv'.clean
  BY <1>1, Zenon DEF Nothing
<1>3. ~HasPacket' /\ step' \notin AfterLen /\ step' # "p_clear" /\ step' # "p_len"
  BY <1>2 DEF HasPacket, ReadFlags, Goto, Fail, AfterLen
<1>4. Pending /\ Pending'
  BY <1>1, SamePending DEF DInv, Arrivals, Waits
<1>5. Numbers
  BY TypesNumbers DEF IInv
<1>6. Arrivals'
  BY <1>1, <1>3, <1>4 DEF DInv, Arrivals
<1>7. ASSUME step' \in Reads
      PROVE  /\ step' = "p_addr" /\ "RX_DONE" \in seen' /\ mark' = Len(heard) /\ rx.id = Len(heard)
             /\ "RX_DONE" \in irq /\ "CRC_ERROR" \notin irq /\ Fresh(rx.id) /\ Holds(rx.slot)
             /\ Pin => GoodFrame(rx.id)
  <2>1. /\ step' = "p_addr" /\ seen' = irq /\ mark' = Len(heard)
        /\ "RX_DONE" \in irq /\ "CRC_ERROR" \notin irq
    BY <1>7 DEF ReadFlags, Goto, Fail, Reads
  <2> QED
    BY <2>1, <1>4 DEF Pending
<1>8. ASSUME step' = "p_addr"
      PROVE  /\ mark' \in 1 .. Len(heard) /\ Fresh(rx.id)' /\ Filled(rx.slot)'
             /\ fifo'[rx'.slot] = mark' \/ Empty(mark)'
             /\ rx'.id = mark' /\ (Pin' => GoodFrame(mark)')
  <2>1. /\ mark' = Len(heard) /\ rx.id = Len(heard) /\ Fresh(rx.id) /\ Holds(rx.slot)
        /\ Pin => GoodFrame(rx.id)
    BY <1>7, <1>8 DEF Reads
  <2>2. rx.id > since /\ since >= 0
    BY <2>1 DEF Fresh, IInv, Configured
  <2>3. Filled(rx.slot)
    BY <2>1, <2>2, <1>5 DEF Filled, Holds, Numbers
  <2>4. Fresh(rx.id)' /\ Filled(rx.slot)'
    BY <1>1, <2>1, <2>3 DEF Fresh, Filled, Empty
  <2>5. fifo'[rx'.slot] = mark' \/ Empty(mark)'
    BY <1>1, <2>1 DEF Holds, Empty
  <2>6. Pin' => GoodFrame(mark)'
    BY <1>1, <2>1 DEF Pin, GoodFrame
  <2> QED
    BY <1>1, <1>5, <2>1, <2>2, <2>4, <2>5, <2>6 DEF Numbers
<1>9. Pin' /\ step' = "p_crc" => "RX_DONE" \in seen'
  BY <1>1 DEF DInv, Reading, ReadFlags, Goto, Fail, Pin
<1>10. step' # "p_irq" /\ (step' \in Reads => step' = "p_addr")
  BY <1>7 DEF ReadFlags, Goto, Fail
<1>11. Reading'
  <2>1. CASE step' = "p_addr"
    <3>1. "RX_DONE" \in seen'
      BY <1>7, <2>1 DEF Reads
    <3>2. mark' \in 1 .. Len(heard')
      BY <1>1, <1>8, <2>1
    <3> QED
      BY <1>2, <1>3, <1>8, <2>1, <3>1, <3>2 DEF Reading, AfterLen, Reads
  <2>2. CASE step' # "p_addr"
    BY <1>2, <1>3, <1>9, <1>10, <2>2 DEF Reading, AfterLen, Reads
  <2> QED
    BY <2>1, <2>2
<1>12. Whole'
  <2>1. CASE step' = "p_addr"
    BY <1>2, <1>3, <1>8, <2>1 DEF Whole, AfterLen, Reads
  <2>2. CASE step' # "p_addr"
    BY <1>2, <1>3, <1>10, <2>2 DEF Whole, AfterLen, Reads
  <2> QED
    BY <2>1, <2>2
<1> QED
  BY <1>1, <1>6, <1>11, <1>12, SameFrames DEF DInv

LEMMA DropBadFrameDInv ==
  ASSUME IInv, DInv, pc = "receive", DropBadFrame, UNCHANGED main
  PROVE  DInv'
<1>1. /\ step = "p_crc" /\ step' = "ret" /\ irq' = irq \ seen /\ ~rcv.got /\ rcv' = rcv
      /\ UNCHANGED <<fifo, ptr, rx, wr, heard, since, delivered, conf, pc>>
  BY DEF DropBadFrame, ClearIrq, hist, main, locals, DInv, Reading
<1>2. ~HasPacket'
  BY <1>1 DEF HasPacket
<1>3. Pending'
  <2>1. Pending /\ (Pin => "RX_DONE" \in seen)
    BY <1>1 DEF DInv, Arrivals, Waits, Reading
  <2>2. Pin => "RX_DONE" \notin irq'
    BY <1>1, <2>1
  <2> QED
    BY <1>1, <2>1, <2>2, SamePending
<1>4. Arrivals'
  BY <1>1, <1>2, <1>3 DEF DInv, Arrivals
<1>5. Reading' /\ Whole'
  BY <1>1, <1>2 DEF Reading, Whole, Reads, AfterLen
<1> QED
  BY <1>1, <1>4, <1>5, SameFrames DEF DInv

\* A call of receive_packet that fails leaves nothing to say.
LEMMA FailDInv ==
  ASSUME DInv, pc = "receive", step' = "ret", ~ok',
         UNCHANGED <<rx, heard, since, delivered, pc>>
  PROVE  DInv'
<1>1. ~HasPacket' /\ ~Waits'
  BY DEF HasPacket, Waits, NoPacket
<1>2. Arrivals'
  BY <1>1 DEF DInv, Arrivals
<1>3. Reading' /\ Whole'
  BY <1>1 DEF Reading, Whole, Reads, AfterLen
<1>4. DeliveredOnceInOrder'
  BY DEF DInv, DeliveredOnceInOrder
<1> QED
  BY <1>2, <1>3, <1>4 DEF DInv

\* The fields of what receive_packet has read.
LEMMA Fields ==
  ASSUME TypeOK, NEW x
  PROVE  /\ LET r == [rcv EXCEPT !.slot = x] IN
              r.slot = x /\ r.len = rcv.len /\ r.snr = rcv.snr /\ r.rssi = rcv.rssi /\ r.got = rcv.got
         /\ LET r == [rcv EXCEPT !.len = x] IN
              r.slot = rcv.slot /\ r.len = x /\ r.snr = rcv.snr /\ r.rssi = rcv.rssi /\ r.got = rcv.got
         /\ LET r == [rcv EXCEPT !.snr = x] IN
              r.slot = rcv.slot /\ r.len = rcv.len /\ r.snr = x /\ r.rssi = rcv.rssi /\ r.got = rcv.got
         /\ LET r == [rcv EXCEPT !.rssi = x] IN
              r.slot = rcv.slot /\ r.len = rcv.len /\ r.snr = rcv.snr /\ r.rssi = x /\ r.got = rcv.got
<1>1. rcv \in Received
  BY MainParts, DriverParts DEF DriverData
<1> QED
  BY <1>1 DEF Received

\* What the steps from p_addr to p_fifo have in common.
LEMMA ReadOn ==
  ASSUME IInv, DInv, pc = "receive", step \in Reads, step' \in Reads \ {"p_addr", "p_clear"},
         UNCHANGED <<irq, fifo, rx, wr, heard, since, delivered, conf, pc, seen, mark>>,
         rcv'.got = rcv.got,
         step' = "p_len" => Filled(rcv.slot)' /\ (mark = Len(heard) => fifo[rcv'.slot] = mark \/ Empty(mark)),
         step' \in AfterLen =>
           /\ Fresh(rcv'.len) /\ rcv'.len <= Len(heard)
           /\ fifo[rcv'.slot] > since \/ Empty(rcv'.len)
           /\ mark = Len(heard) =>
                /\ fifo[rcv'.slot] = mark \/ Empty(mark)
                /\ rcv'.len = mark
                /\ step' \in {"p_rssi", "p_ptr", "p_fifo"} => rcv'.snr = mark
                /\ step' \in {"p_ptr", "p_fifo"} => rcv'.rssi = mark,
         step' = "p_fifo" => ptr' = rcv'.slot
  PROVE  DInv'
<1>1. ~HasPacket' /\ ~Waits'
  BY DEF HasPacket, Waits, NoPacket, Reads
<1>2. Arrivals'
  BY <1>1 DEF DInv, Arrivals
<1>3. ~rcv.got /\ "RX_DONE" \in seen /\ Fresh(rx.id) /\ mark \in 1 .. Len(heard)
      /\ (Pin => GoodFrame(mark)) /\ (mark = Len(heard) => rx.id = mark)
  BY DEF DInv, Reading, Whole
<1>4. /\ Fresh(rx.id)' /\ (Pin' => GoodFrame(mark)')
      /\ step' \in AfterLen => Fresh(rcv.len)'
  BY <1>3 DEF Fresh, Pin, GoodFrame
<1>5. /\ \A n : Empty(n)' <=> Empty(n)
      /\ (Empty(rcv.len)' <=> Empty(rcv'.len)) /\ (Empty(mark)' <=> Empty(mark))
  BY DEF Empty
<1>6. /\ step' # "p_irq" /\ step' # "p_crc" /\ step' # "p_addr" /\ step' # "p_clear"
      /\ step' = "p_len" \/ step' \in AfterLen
  BY DEF Reads, AfterLen
<1>7. Reading'
  BY <1>1, <1>3, <1>4, <1>5, <1>6 DEF Reading
<1>8. Whole'
  BY <1>1, <1>3, <1>5, <1>6 DEF Whole, AfterLen
<1> QED
  BY <1>2, <1>7, <1>8, SameFrames DEF DInv

LEMMA ReadPacketDInv ==
  ASSUME IInv, DInv, pc = "receive", ReadPacket, UNCHANGED main
  PROVE  DInv'
<1>0. TypeOK
  BY DEF IInv
<1>1. /\ UNCHANGED <<irq, fifo, rx, wr, heard, since, delivered, conf, pc, seen, mark>>
      /\ step \in Reads
  BY DEF ReadPacket, Read, Write, Transfer, SetPtr, chip, regs, hist, main, locals, Reads
<1>2. CASE step' = "ret" /\ ~ok'
  BY <1>1, <1>2, FailDInv
<1>3. ASSUME step' # "ret" \/ ok' PROVE ReadPacket /\ ~(step' = "ret" /\ ok' = FALSE)
  BY <1>3
<1>a. CASE step = "p_addr" /\ step' = "p_len" /\ rcv' = [rcv EXCEPT !.slot = rx.slot]
  <2>1. rcv'.slot = rx.slot /\ rcv'.got = rcv.got
    BY <1>0, <1>a, Fields
  <2>2. Filled(rx.slot) /\ (mark = Len(heard) => fifo[rx.slot] = mark \/ Empty(mark))
    BY <1>a DEF DInv, Reading, Whole
  <2>3. Filled(rcv.slot)'
    BY <1>1, <2>1, <2>2 DEF Filled, Empty
  <2> QED
    BY <1>1, <1>a, <2>1, <2>2, <2>3, ReadOn DEF Reads, AfterLen
<1>b. CASE step = "p_len" /\ step' = "p_snr" /\ rcv' = [rcv EXCEPT !.len = rx.id]
  <2>1. rcv'.slot = rcv.slot /\ rcv'.len = rx.id /\ rcv'.got = rcv.got
    BY <1>0, <1>b, Fields
  <2>2. /\ Filled(rcv.slot) /\ Fresh(rx.id) /\ rx.id <= Len(heard)
        /\ mark = Len(heard) => rx.id = mark /\ (fifo[rcv.slot] = mark \/ Empty(mark))
    BY <1>1, <1>b DEF DInv, Reading, Whole, Arrivals
  <2>3. fifo[rcv.slot] > since \/ Empty(rx.id)
    BY <2>2 DEF Filled
  <2> QED
    BY <1>1, <1>b, <2>1, <2>2, <2>3, ReadOn DEF Reads
<1>m. ASSUME step \in AfterLen
      PROVE  /\ Fresh(rcv.len) /\ rcv.len <= Len(heard)
             /\ fifo[rcv.slot] > since \/ Empty(rcv.len)
             /\ mark = Len(heard) =>
                  /\ rx.id = mark /\ rcv.len = mark
                  /\ fifo[rcv.slot] = mark \/ Empty(mark)
                  /\ step \in {"p_rssi", "p_ptr", "p_fifo"} => rcv.snr = mark
                  /\ step \in {"p_ptr", "p_fifo"} => rcv.rssi = mark
  BY <1>1, <1>m DEF DInv, Reading, Whole
<1>c. CASE step = "p_snr" /\ step' = "p_rssi" /\ rcv' = [rcv EXCEPT !.snr = rx.id]
  <2>1. rcv'.slot = rcv.slot /\ rcv'.len = rcv.len /\ rcv'.snr = rx.id /\ rcv'.got = rcv.got
    BY <1>0, <1>c, Fields
  <2> QED
    BY <1>1, <1>c, <1>m, <2>1, ReadOn DEF Reads, AfterLen
<1>d. CASE step = "p_rssi" /\ step' = "p_ptr" /\ rcv' = [rcv EXCEPT !.rssi = rx.id]
  <2>1. /\ rcv'.slot = rcv.slot /\ rcv'.len = rcv.len /\ rcv'.snr = rcv.snr
        /\ rcv'.rssi = rx.id /\ rcv'.got = rcv.got
    BY <1>0, <1>d, Fields
  <2> QED
    BY <1>1, <1>d, <1>m, <2>1, ReadOn DEF Reads, AfterLen
<1>e. CASE step = "p_ptr" /\ step' = "p_fifo" /\ rcv' = rcv /\ ptr' = rcv.slot
  BY <1>1, <1>e, <1>m, ReadOn DEF Reads, AfterLen
<1> QED
  BY <1>2, <1>a, <1>b, <1>c, <1>d, <1>e DEF ReadPacket, Read, Write, Transfer, Goto, Fail, SetPtr, locals

LEMMA ReadPayloadDInv ==
  ASSUME IInv, DInv, pc = "receive", ReadPayload, UNCHANGED main
  PROVE  DInv'
<1>0. Numbers
  BY TypesNumbers DEF IInv
<1>1. /\ UNCHANGED <<irq, fifo, rx, wr, heard, since, delivered, conf, pc, seen, mark>>
      /\ step = "p_fifo"
      /\ rcv' = [rcv EXCEPT !.data = IF Empty(rcv.len) THEN Garbage ELSE fifo[ptr],
                            !.clean = (Len(heard) = mark)]
  BY DEF ReadPayload, Transfer, ReadFifo, hist, main
<1>2. CASE step' = "ret" /\ ~ok'
  BY <1>1, <1>2, FailDInv
<1>3. CASE step' = "p_clear"
  <2>1. rcv \in Received
    BY MainParts, DriverParts DEF DriverData, IInv
  <2>2. /\ rcv'.slot = rcv.slot /\ rcv'.len = rcv.len /\ rcv'.snr = rcv.snr /\ rcv'.rssi = rcv.rssi
        /\ rcv'.data = IF Empty(rcv.len) THEN Garbage ELSE fifo[ptr]
    BY <1>1, <2>1 DEF Received
  <2>3. (rcv'.clean <=> Len(heard) = mark) /\ (rcv'.got <=> rcv.got)
    BY <1>1, <2>1, Zenon DEF Received
  <2>4. /\ ~rcv.got /\ "RX_DONE" \in seen /\ Fresh(rx.id) /\ mark \in 1 .. Len(heard)
        /\ (Pin => GoodFrame(mark)) /\ Fresh(rcv.len) /\ rcv.len <= Len(heard)
        /\ fifo[rcv.slot] > since \/ Empty(rcv.len)
        /\ ptr = rcv.slot
        /\ mark = Len(heard) =>
             /\ rx.id = mark /\ rcv.len = mark /\ rcv.snr = mark /\ rcv.rssi = mark
             /\ fifo[rcv.slot] = mark \/ Empty(mark)
    BY <1>1 DEF DInv, Reading, Whole, Reads, AfterLen
  <2>5. ~HasPacket' /\ ~Waits'
    BY <1>1, <1>3 DEF HasPacket, Waits, NoPacket
  <2>6. Arrivals'
    BY <1>1, <1>3, <2>5 DEF DInv, Arrivals
  <2>7. /\ Fresh(rx.id)' /\ (Pin' => GoodFrame(mark)') /\ Fresh(rcv.len)'
    BY <1>1, <2>2, <2>4 DEF Fresh, Pin, GoodFrame
  <2>8. rcv'.data = Garbage \/ rcv'.data > since'
    BY <1>1, <2>2, <2>4
  <2>9. Reading'
    BY <1>1, <1>3, <2>2, <2>3, <2>4, <2>5, <2>7, <2>8 DEF Reading, Reads, AfterLen
  <2>10. Whole'
    <3>1. Empty(mark)' <=> Empty(mark)
      BY <1>1 DEF Empty
    <3>2. mark = Len(heard) => rx'.id = mark' /\ (Empty(mark) \/ rcv'.data = mark)
      BY <1>1, <2>2, <2>4
    <3> QED
      BY <1>1, <1>3, <2>2, <2>3, <2>4, <2>5, <3>1, <3>2 DEF Whole, Reads, AfterLen
  <2> QED
    BY <1>1, <2>6, <2>9, <2>10, SameFrames DEF DInv
<1> QED
  BY <1>1, <1>2, <1>3 DEF ReadPayload, Transfer, Goto, Fail

LEMMA AckPacketDInv ==
  ASSUME IInv, DInv, pc = "receive", AckPacket, UNCHANGED main
  PROVE  DInv'
<1>1. /\ UNCHANGED <<fifo, ptr, rx, wr, heard, since, delivered, conf, pc, seen, mark>>
      /\ step = "p_clear" /\ step' = "ret" /\ irq' = irq \ seen
  BY DEF AckPacket, ClearIrq, hist, main
<1>2. CASE ~ok'
  BY <1>1, <1>2, FailDInv
<1>3. CASE rcv' = [rcv EXCEPT !.got = TRUE] /\ ok' = ok
  <2>1. rcv \in Received
    BY MainParts, DriverParts DEF DriverData, IInv
  <2>2. /\ rcv'.slot = rcv.slot /\ rcv'.len = rcv.len /\ rcv'.snr = rcv.snr /\ rcv'.rssi = rcv.rssi
        /\ rcv'.data = rcv.data
    BY <1>3, <2>1 DEF Received
  <2>3. (rcv'.clean <=> rcv.clean) /\ rcv'.got
    BY <1>3, <2>1, Zenon DEF Received
  <2>4. /\ "RX_DONE" \in seen /\ mark \in 1 .. Len(heard)
        /\ (Pin => GoodFrame(mark)) /\ Fresh(rcv.len) /\ rcv.len <= Len(heard)
        /\ rcv.data = Garbage \/ rcv.data > since
        /\ rcv.clean =>
             /\ rcv.len = mark /\ rcv.snr = mark /\ rcv.rssi = mark
             /\ Empty(mark) \/ rcv.data = mark
    BY <1>1 DEF DInv, Reading, Whole, Reads
  <2>5. "RX_DONE" \notin irq'
    BY <1>1, <2>4
  <2>6. Pending' /\ Arrivals'
    BY <1>1, <2>5 DEF DInv, Arrivals, Pending
  <2>7. (Pin' => GoodFrame(mark)') /\ Fresh(rcv.len)' /\ (Empty(mark)' <=> Empty(mark))
    BY <1>1, <2>2, <2>4 DEF Fresh, Pin, GoodFrame, Empty
  <2>8. Reading'
    BY <1>1, <2>2, <2>4, <2>7 DEF Reading, Reads, AfterLen
  <2>9. Whole'
    BY <1>1, <2>2, <2>3, <2>4, <2>7 DEF Whole, Reads, AfterLen
  <2> QED
    BY <1>1, <2>6, <2>8, <2>9, SameFrames DEF DInv
<1> QED
  BY <1>1, <1>2, <1>3 DEF AckPacket

\* Outside receive_packet only the arrivals count.
LEMMA ElsewhereDInv ==
  ASSUME pc' # "receive",
         rx'.id <= Len(heard'),
         \A i \in DOMAIN delivered' : delivered'[i].len <= Len(heard'),
         DeliveredOnceInOrder',
         pc' \in {"listen", "txhex", "repeat"} /\ step' \in {"r_ptr", "r_mode"} => "RX_DONE" \notin irq',
         Waits' => Pending'
  PROVE  DInv'
<1>1. ~HasPacket'
  BY DEF HasPacket
<1>2. Arrivals'
  BY <1>1 DEF Arrivals
<1>3. Reading' /\ Whole'
  BY DEF Reading, Whole
<1> QED
  BY <1>2, <1>3 DEF DInv

\* The calls that do not receive, up to their acknowledgement of all flags.
LEMMA DriverElsewhere ==
  ASSUME IInv, DInv, pc # "down", pc # "receive", Driver, UNCHANGED main
  PROVE  DInv'
<1>0. Numbers /\ Place /\ pc \in Sites
  BY TypesNumbers, MainParts DEF IInv, MainTypeOK
<1>1. UNCHANGED <<pc, delivered>>
  BY DEF main
<1>2. step \notin PSteps
  BY <1>0, SiteOfStep
<1>3. HardwareReset \/ ReadVersion \/ BeginLora \/ RxContinuous \/ TransmitPacket \/ TransferLost
  BY <1>2 DEF Driver, ReceivePacket, ReadFlags, DropBadFrame, ReadPacket, ReadPayload, AckPacket,
     Read, Write, Transfer, PSteps
<1>4. heard' = heard /\ (rx' = rx \/ rx' = NoFrame) /\ (since' = since \/ step = "b_sleep")
  <2>1. CASE HardwareReset \/ ReadVersion \/ BeginLora
    BY <2>1 DEF HardwareReset, ReadVersion, BeginLora, Write, Transfer, ResetChip, Sleep, SetModem,
       SetMode, chip, regs, hist
  <2>2. CASE RxContinuous \/ TransmitPacket \/ TransferLost
    BY <2>2 DEF RxContinuous, TransmitPacket, TransferLost, CheckSize, LoadPacket, CheckDeadline,
       PollTxDone, AckTxDone, Write, SetMode, SetDio, ClearIrq, SetPtr, WriteFifo, SetLength, chip,
       regs, hist
  <2> QED
    BY <1>3, <2>1, <2>2
<1>5. rx'.id <= Len(heard')
  <2>1. NoFrame.id = 0
    BY DEF NoFrame, Garbage
  <2> QED
    BY <1>0, <1>4, <2>1 DEF DInv, Arrivals, Numbers
<1>6. \A i \in DOMAIN delivered' : delivered'[i].len <= Len(heard')
  BY <1>1, <1>4 DEF DInv, Arrivals
<1>7. DeliveredOnceInOrder'
  <2>1. CASE since' = since
    BY <1>1, <2>1 DEF DInv, DeliveredOnceInOrder
  <2>2. CASE step = "b_sleep"
    <3>1. pc = "begin"
      BY <1>0, <2>2, SiteOfStep
    <3>2. delivered' = <<>>
      BY <1>1, <3>1 DEF IInv, Counted
    <3> QED
      BY <3>2 DEF DeliveredOnceInOrder
  <2> QED
    BY <1>4, <2>1, <2>2
<1>8. step' \in {"r_ptr", "r_mode"} \/ (step' = "ret" /\ ok') =>
        step \in {"reset", "version", "b_stdby"} \/ "RX_DONE" \notin irq'
  <2>1. CASE HardwareReset \/ ReadVersion \/ BeginLora
    BY <2>1 DEF HardwareReset, ReadVersion, BeginLora, Write, Transfer, Goto, Fail
  <2>2. CASE RxContinuous
    <3>1. step = "r_clear" => irq' = irq \ Flags
      BY <2>2 DEF RxContinuous, Write, Transfer, ClearIrq
    <3>2. step \in {"r_ptr", "r_mode"} => irq' = irq /\ pc \in {"listen", "txhex", "repeat"}
      BY <1>0, <2>2, SiteOfStep DEF RxContinuous, Write, Transfer, SetPtr, SetMode, RSteps
    <3>3. step \in {"r_ptr", "r_mode"} => "RX_DONE" \notin irq'
      BY <3>2 DEF DInv, Arrivals
    <3>4. step = "r_clear" => "RX_DONE" \notin irq'
      BY <3>1 DEF Flags
    <3>5. /\ step' \in {"r_ptr", "r_mode"} => step \in {"r_clear", "r_ptr"}
          /\ step' = "ret" /\ ok' => step = "r_mode"
      BY <2>2 DEF RxContinuous, Write, Transfer, Goto, Fail
    <3> QED
      BY <3>3, <3>4, <3>5
  <2>3. CASE TransmitPacket
    BY <2>3 DEF TransmitPacket, CheckSize, LoadPacket, CheckDeadline, PollTxDone, AckTxDone, Write,
       Transfer, Goto, Fail
  <2>4. CASE TransferLost
    BY <1>2, <2>4 DEF TransferLost, PSteps
  <2> QED
    BY <1>3, <2>1, <2>2, <2>3, <2>4
<1>9. step \in {"reset", "version", "b_stdby"} => pc \in {"reset", "version", "begin"}
  BY <1>0 DEF Place, Sites, RSteps, TSteps, LoadSteps
<1>10. pc' \in {"listen", "txhex", "repeat"} /\ step' \in {"r_ptr", "r_mode"} => "RX_DONE" \notin irq'
  BY <1>1, <1>8, <1>9
<1>11. Waits' => Pending'
  <2>1. SUFFICES ASSUME Waits' PROVE Pending'
    OBVIOUS
  <2>2. CASE pc \in {"loop", "tick"}
    <3>1. step = "ret"
      BY <1>0, <2>2 DEF Place
    <3> QED
      BY <1>3, <3>1 DEF HardwareReset, ReadVersion, BeginLora, RxContinuous, TransmitPacket,
         TransferLost, CheckSize, LoadPacket, CheckDeadline, PollTxDone, AckTxDone, Write, Transfer
  <2>3. CASE pc \notin {"loop", "tick"}
    <3>1. pc \in {"listen", "txhex", "repeat"} /\ step' = "ret" /\ ok'
      BY <1>1, <2>1, <2>3 DEF Waits, NoPacket
    <3>2. "RX_DONE" \notin irq'
      BY <1>8, <1>9, <3>1
    <3> QED
      BY <3>2 DEF Pending
  <2> QED
    BY <2>2, <2>3
<1> QED
  BY <1>1, <1>5, <1>6, <1>7, <1>10, <1>11, ElsewhereDInv

LEMMA DriverDInv == IInv /\ DInv /\ DriverStep => DInv'
<1> SUFFICES ASSUME IInv, DInv, pc # "down", Driver, UNCHANGED main PROVE DInv'
  BY DEF DriverStep
<1>1. CASE pc # "receive"
  BY <1>1, DriverElsewhere
<1>2. CASE pc = "receive"
  <2>1. step \in PSteps \union {"ret"}
    BY <1>2 DEF IInv, Place
  <2>2. ReceivePacket \/ TransferLost
    BY <2>1 DEF Driver, HardwareReset, ReadVersion, BeginLora, RxContinuous, TransmitPacket,
       CheckSize, LoadPacket, CheckDeadline, PollTxDone, AckTxDone, Write, Transfer, PSteps
  <2>3. CASE ReceivePacket
    BY <1>2, <2>3, ReadFlagsDInv, DropBadFrameDInv, ReadPacketDInv, ReadPayloadDInv, AckPacketDInv
       DEF ReceivePacket
  <2>4. CASE TransferLost
    <3>1. /\ UNCHANGED <<irq, fifo, ptr, rx, wr, heard, since, delivered, conf, pc, rcv>>
          /\ step' = "ret" /\ (ok' => step = "p_crc")
      BY <2>4 DEF TransferLost, chip, regs, hist, main, locals
    <3>2. CASE ~ok'
      BY <1>2, <3>1, <3>2, FailDInv
    <3>3. CASE step = "p_crc"
      <4>1. ~HasPacket'
        BY <1>2, <3>1, <3>3 DEF DInv, Reading, HasPacket
      <4>2. Pending'
        BY <1>2, <3>1, <3>3, SamePending DEF DInv, Arrivals, Waits
      <4>3. Arrivals'
        BY <3>1, <4>1, <4>2 DEF DInv, Arrivals
      <4>4. Reading' /\ Whole'
        BY <3>1, <4>1 DEF Reading, Whole, Reads, AfterLen
      <4> QED
        BY <3>1, <4>3, <4>4, SameFrames DEF DInv
    <3> QED
      BY <3>1, <3>2, <3>3
  <2> QED
    BY <2>2, <2>3, <2>4
<1> QED
  BY <1>1, <1>2

\* main() starts a call with no frame in its hands.
LEMMA StartDInv == DInv /\ Start => DInv'
<1> SUFFICES ASSUME DInv, Start PROVE DInv'
  OBVIOUS
<1>1. /\ pc' \in {"reset", "version"} /\ step' = pc' /\ delivered' = <<>>
      /\ UNCHANGED <<rx, heard>>
  BY DEF Start, Call
<1>2. ~Waits' /\ DeliveredOnceInOrder' /\ rx'.id <= Len(heard')
  BY <1>1 DEF Waits, NoPacket, DeliveredOnceInOrder, DInv, Arrivals
<1> QED
  BY <1>1, <1>2, ElsewhereDInv

\* A turn of the loop that receives nothing new: nothing is delivered and no
\* frame and no flag is touched.
LEMMA TurnDInv ==
  ASSUME DInv, UNCHANGED <<irq, fifo, rx, wr, heard, since, delivered, conf>>, pc' # "receive",
         pc' \in {"listen", "txhex", "repeat"} => step' \notin {"r_ptr", "r_mode"},
         Waits' => Waits
  PROVE  DInv'
<1>1. Waits' => Pending'
  BY SamePending DEF DInv, Arrivals
<1>2. rx'.id <= Len(heard') /\ \A i \in DOMAIN delivered' : delivered'[i].len <= Len(heard')
  BY DEF DInv, Arrivals
<1> QED
  BY <1>1, <1>2, ElsewhereDInv, SameFrames DEF DInv

LEMMA CheckRadioDInv == IInv /\ DInv /\ CheckRadio => DInv'
<1> SUFFICES ASSUME IInv, DInv, CheckRadio PROVE DInv'
  OBVIOUS
<1>1. pc = "tick" /\ UNCHANGED <<irq, fifo, rx, wr, heard, since, delivered, conf>>
  BY DEF CheckRadio, chip, regs, hist
<1>2. CASE pc' = "loop"
  BY <1>1, <1>2, TurnDInv DEF Waits
<1>3. CASE pc' = "receive" /\ step' = "p_irq" /\ (conf.dio0 => DioHigh)
  <2>1. dio = "RX_DONE"
    BY <1>1 DEF IInv, Listening
  <2>2. Pin' /\ step' = "p_irq" => "RX_DONE" \in irq'
    BY <1>1, <1>3, <2>1 DEF Pin, DioHigh
  <2>3. Pending'
    BY <1>1, SamePending DEF DInv, Arrivals, Waits
  <2>4. ~HasPacket'
    BY <1>3 DEF HasPacket
  <2>5. Arrivals'
    BY <1>1, <1>3, <2>3, <2>4 DEF DInv, Arrivals
  <2>6. Reading' /\ Whole'
    BY <1>3, <2>2, <2>4 DEF Reading, Whole, Reads, AfterLen
  <2> QED
    BY <1>1, <2>5, <2>6, SameFrames DEF DInv
<1> QED
  BY <1>2, <1>3 DEF CheckRadio, Call

\* The packet goes to main(), and the next frame waits behind it.
\* main() hands a packet on behind the earlier ones.
LEMMA Delivers ==
  ASSUME IInv, AfterReceive, rcv.got
  PROVE  /\ Len(delivered') = Len(delivered) + 1
         /\ DOMAIN delivered' = 1 .. Len(delivered) + 1
         /\ \A i \in 1 .. Len(delivered) : delivered'[i] = delivered[i]
         /\ delivered'[Len(delivered) + 1] = Packet(rcv)
<1> DEFINE R == [data : Content, len : Frame]
<1>1. delivered \in Seq(R) /\ Packet(rcv) \in R
  BY MainParts, DriverParts DEF IInv, MainTypeOK, DriverData, Received, Packet
<1>2. delivered' = Append(delivered, Packet(rcv))
  BY DEF AfterReceive
<1> HIDE DEF R
<1> QED
  BY <1>1, <1>2, AppendProperties

LEMMA AfterReceiveDInv == IInv /\ DInv /\ AfterReceive => DInv'
<1> SUFFICES ASSUME IInv, DInv, AfterReceive PROVE DInv'
  OBVIOUS
<1>1. /\ pc = "receive" /\ step = "ret" /\ ok
      /\ pc' \in {"loop", "repeat"} /\ (pc' = "repeat" => step' = "t_size")
      /\ UNCHANGED <<irq, fifo, rx, wr, heard, since, conf>>
  BY DEF AfterReceive, Returned, Call, chip, regs, hist
<1>2. CASE ~rcv.got
  <2>1. delivered' = delivered /\ pc' = "loop"
    BY <1>2 DEF AfterReceive
  <2> QED
    BY <1>1, <1>2, <2>1, TurnDInv DEF Waits, NoPacket
<1>3. CASE rcv.got
  <2>0. Numbers
    BY TypesNumbers DEF IInv
  <2>1. HasPacket
    BY <1>1, <1>3 DEF HasPacket
  <2>3. /\ DOMAIN delivered' = 1 .. Len(delivered) + 1
        /\ \A i \in 1 .. Len(delivered) : delivered'[i] = delivered[i]
        /\ delivered'[Len(delivered) + 1] = Packet(rcv)
    BY <1>3, Delivers
  <2>4. Packet(rcv).len = rcv.len /\ Packet(rcv).data = rcv.data
    BY DEF Packet
  <2>5. /\ Fresh(rcv.len) /\ rcv.len <= Len(heard)
        /\ rcv.data = Garbage \/ rcv.data > since
    BY <2>1, <1>1 DEF DInv, Reading
  <2>6. rx.id <= Len(heard) /\ Pending /\ ("RX_DONE" \in irq => rcv.len < rx.id)
    BY <2>1 DEF DInv, Arrivals
  <2>7. \A i \in DOMAIN delivered' : i \in DOMAIN delivered \/ i = Len(delivered) + 1
    BY <2>0, <2>3 DEF Numbers
  <2>8. \A i \in DOMAIN delivered' : delivered'[i].len <= Len(heard')
    <3>1. \A i \in DOMAIN delivered : delivered[i].len <= Len(heard)
      BY DEF DInv, Arrivals
    <3> QED
      BY <1>1, <2>0, <2>3, <2>4, <2>5, <2>7, <3>1 DEF Numbers
  <2>9. DeliveredOnceInOrder'
    <3> SUFFICES ASSUME NEW i \in DOMAIN delivered'
                 PROVE  /\ delivered'[i].len > since
                        /\ delivered'[i].data = Garbage \/ delivered'[i].data > since
                        /\ \A j \in 1 .. i - 1 : delivered'[j].len < delivered'[i].len
      BY <1>1 DEF DeliveredOnceInOrder
    <3>1. CASE i \in DOMAIN delivered
      <4>1. i \in 1 .. Len(delivered) /\ \A j \in 1 .. i - 1 : j \in 1 .. Len(delivered)
        BY <2>0, <3>1 DEF Numbers
      <4> QED
        BY <2>3, <3>1, <4>1 DEF DInv, DeliveredOnceInOrder
    <3>2. CASE i = Len(delivered) + 1
      <4>1. \A j \in 1 .. i - 1 : j \in DOMAIN delivered /\ delivered'[j] = delivered[j]
        BY <2>0, <2>3, <3>2 DEF Numbers
      <4> QED
        BY <2>3, <2>4, <2>5, <3>2, <4>1 DEF Fresh
    <3> QED
      BY <2>7, <3>1, <3>2
  <2>10. Pending'
    <3> SUFFICES ASSUME "RX_DONE" \in irq' PROVE Pending'
      BY DEF Pending
    <3>1. /\ rx.id = Len(heard) /\ Fresh(rx.id) /\ Holds(rx.slot) /\ rcv.len < rx.id
          /\ Pin /\ "CRC_ERROR" \notin irq => GoodFrame(rx.id)
      BY <1>1, <2>6 DEF Pending
    <3>2. Fresh(rx.id)'
      <4>1. \A i \in DOMAIN delivered' : delivered'[i].len < rx.id
        <5> SUFFICES ASSUME NEW i \in DOMAIN delivered' PROVE delivered'[i].len < rx.id
          OBVIOUS
        <5>1. CASE i \in DOMAIN delivered
          BY <2>0, <2>3, <3>1, <5>1 DEF Fresh, Numbers
        <5>2. CASE i = Len(delivered) + 1
          BY <2>3, <2>4, <3>1, <5>2
        <5> QED
          BY <2>7, <5>1, <5>2
      <4> QED
        BY <1>1, <3>1, <4>1 DEF Fresh
    <3>3. Holds(rx.slot)'
      BY <1>1, <3>1 DEF Holds, Empty
    <3>4. (GoodFrame(rx.id)' <=> GoodFrame(rx.id)) /\ (Pin' <=> Pin)
      BY <1>1 DEF GoodFrame, Pin
    <3> QED
      BY <1>1, <3>1, <3>2, <3>3, <3>4 DEF Pending
  <2> QED
    BY <1>1, <2>6, <2>8, <2>9, <2>10, ElsewhereDInv
<1> QED
  BY <1>2, <1>3

LEMMA MainDInv == IInv /\ DInv /\ Main => DInv'
<1> SUFFICES ASSUME IInv, DInv, Main PROVE DInv'
  OBVIOUS
<1>1. CASE AfterReset \/ AfterVersion \/ AfterBegin \/ AfterTxHex \/ DioReadFails \/ CallFailed
  <2>1. /\ pc' \in {"down", "version", "begin", "listen", "txhex"}
        /\ pc' \in {"listen", "txhex"} => step' \in {"r_stdby", "t_size"}
        /\ UNCHANGED <<irq, fifo, rx, wr, heard, since, delivered, conf>>
    BY <1>1 DEF AfterReset, AfterVersion, AfterBegin, AfterTxHex, DioReadFails, CallFailed, Call,
       Leave, chip, regs, hist
  <2>2. ~Waits'
    BY <2>1 DEF Waits, NoPacket
  <2> QED
    BY <2>1, <2>2, TurnDInv
<1>2. CASE AfterListen \/ AfterRepeat \/ LoopHead
  <2>1. /\ pc' \in {"loop", "tick", "down"} /\ Waits
        /\ UNCHANGED <<irq, fifo, rx, wr, heard, since, delivered, conf>>
    BY <1>2 DEF AfterListen, AfterRepeat, LoopHead, Returned, chip, regs, hist, Waits
  <2> QED
    BY <2>1, TurnDInv
<1> QED
  BY <1>1, <1>2, CheckRadioDInv, AfterReceiveDInv DEF Main

\* A transmission never ends while a frame is waited for.
LEMMA FinishTxDInv == IInv /\ DInv /\ FinishTx /\ UNCHANGED <<driver, main>> => DInv'
<1> SUFFICES ASSUME IInv, DInv, FinishTx, UNCHANGED <<driver, main>> PROVE DInv'
  OBVIOUS
<1>1. /\ mode = "TX" /\ irq' = irq \union {"TX_DONE"}
      /\ UNCHANGED <<rx, heard, since, pc, step, ok, rcv, delivered, conf>>
  BY DEF FinishTx, driver, locals, main
<1>2. pc # "receive" /\ ~Waits
  BY <1>1 DEF IInv, Listening, Waits, NoPacket
<1>3. ~Waits'
  BY <1>1, <1>2 DEF Waits, NoPacket
<1>4. /\ rx'.id <= Len(heard') /\ \A i \in DOMAIN delivered' : delivered'[i].len <= Len(heard')
      /\ DeliveredOnceInOrder'
      /\ pc' \in {"listen", "txhex", "repeat"} /\ step' \in {"r_ptr", "r_mode"} => "RX_DONE" \notin irq'
  BY <1>1 DEF DInv, Arrivals, DeliveredOnceInOrder
<1> QED
  BY <1>1, <1>2, <1>3, <1>4, ElsewhereDInv

LEMMA OtherDInv ==
  DInv /\ (HandleSignal \/ Crash \/ (DeadlinePasses /\ UNCHANGED main) \/ UNCHANGED vars) => DInv'
<1> SUFFICES ASSUME DInv,
                    HandleSignal \/ Crash \/ (DeadlinePasses /\ UNCHANGED main) \/ UNCHANGED vars
             PROVE  DInv'
  OBVIOUS
<1>1. UNCHANGED <<irq, fifo, ptr, rx, wr, heard, since, step, ok, seen, rcv, mark, conf, delivered>>
  BY DEF HandleSignal, Crash, DeadlinePasses, vars, main, driver, locals, chip, regs, hist
<1>2. CASE pc' = pc
  <2>1. /\ Fresh(rx.id)' <=> Fresh(rx.id)
        /\ Fresh(rcv.len)' <=> Fresh(rcv.len)
        /\ Holds(rx.slot)' <=> Holds(rx.slot)
        /\ Filled(rx.slot)' <=> Filled(rx.slot)
        /\ Filled(rcv.slot)' <=> Filled(rcv.slot)
        /\ GoodFrame(rx.id)' <=> GoodFrame(rx.id)
        /\ GoodFrame(mark)' <=> GoodFrame(mark)
        /\ Empty(mark)' <=> Empty(mark)
        /\ Empty(rcv.len)' <=> Empty(rcv.len)
        /\ Pin' <=> Pin
    BY <1>1 DEF Fresh, Holds, Filled, GoodFrame, Empty, Pin
  <2>2. (HasPacket' <=> HasPacket) /\ (Waits' <=> Waits)
    BY <1>1, <1>2 DEF HasPacket, Waits, NoPacket
  <2>3. Arrivals'
    BY <1>1, <1>2, <2>1, <2>2 DEF DInv, Arrivals, Pending
  <2>4. Reading'
    BY <1>1, <1>2, <2>1, <2>2 DEF DInv, Reading
  <2>5. Whole'
    BY <1>1, <1>2, <2>1, <2>2 DEF DInv, Whole
  <2> QED
    BY <1>1, <2>3, <2>4, <2>5, SameFrames DEF DInv
<1>3. CASE pc' = "down"
  BY <1>1, <1>3, TurnDInv DEF Waits, NoPacket
<1> QED
  BY <1>2, <1>3 DEF HandleSignal, Crash, DeadlinePasses, vars, main

LEMMA NextDInv == IInv /\ DInv /\ [Next]_vars => DInv'
<1> SUFFICES ASSUME IInv, DInv, [Next]_vars PROVE DInv'
  OBVIOUS
<1>1. CASE ChipStep
  BY <1>1, HearDInv, FinishTxDInv DEF ChipStep
<1> QED
  BY <1>1, StartDInv, MainDInv, DriverDInv, OtherDInv DEF Next, System, Clock

LEMMA InitDInv == Init => DInv
<1> SUFFICES ASSUME Init PROVE DInv
  OBVIOUS
<1>1. pc = "down" /\ delivered = <<>> /\ rx = NoFrame /\ heard = <<>>
  BY DEF Init, ChipInit
<1>2. rx.id = 0 /\ Len(heard) = 0
  BY <1>1 DEF NoFrame, Garbage
<1> QED
  BY <1>1, <1>2 DEF DInv, Arrivals, Reading, Whole, Waits, HasPacket, NoPacket, DeliveredOnceInOrder

THEOREM DeliveryInvariance == Spec => []DInv
  BY InitDInv, NextDInv, Invariance, PTL DEF Spec

\* Whatever is started, lost, overrun or restarted, a process hands on only
\* frames heard after it took the chip, in the order heard, and none twice.
THEOREM DeliveredCorrect == Spec => []DeliveredOnceInOrder
<1>1. DInv => DeliveredOnceInOrder
  BY DEF DInv
<1> QED
  BY <1>1, DeliveryInvariance, PTL

\* When no frame completed between the reads of the flags and of the FIFO, the
\* packet is one frame, and with the DIO0 pin its CRC was right.
THEOREM IntactCorrect == Spec => []DeliveredIntact
<1>1. IInv /\ DInv => DeliveredIntact
  <2> SUFFICES ASSUME IInv, DInv, HasPacket, rcv.clean
               PROVE  /\ mark \in DOMAIN heard
                      /\ rcv.len = mark /\ rcv.snr = mark /\ rcv.rssi = mark
                      /\ heard[mark].empty \/ rcv.data = mark
                      /\ conf.dio0 => heard[mark].good
    BY DEF DeliveredIntact, HasPacket
  <2>1. /\ mark \in 1 .. Len(heard) /\ (Pin => GoodFrame(mark))
    BY DEF DInv, Reading, HasPacket
  <2>2. /\ rcv.len = mark /\ rcv.snr = mark /\ rcv.rssi = mark
        /\ Empty(mark) \/ rcv.data = mark
    BY DEF DInv, Whole, HasPacket
  <2>3. DOMAIN heard = 1 .. Len(heard)
    BY MainParts, ChipParts DEF IInv, ChipData
  <2> QED
    BY <2>1, <2>2, <2>3 DEF Pin, GoodFrame, Empty
<1> QED
  BY <1>1, Invariance, DeliveryInvariance, PTL

-----------------------------------------------------------------------------
(* A repeater never sends more than it hears.  The numbers of the frames   *)
(* bound how many were delivered; the promise of StoreAndForward, what was *)
(* sent.                                                                   *)

\* Since a process took the chip it has counted no more packets than frames
\* came, and has sent no more than those and the one of --tx-hex: each is the
\* next one owed, and at most one is still to be sent.
NoAmplification ==
  since >= 0 =>
    /\ Len(delivered) <= Len(heard) - since
    /\ Len(aired) <= (IF conf.tx = "none" THEN 0 ELSE 1)
                       + (IF conf.repeat THEN Len(heard) - since ELSE 0)
    /\ \A i \in 1 .. Len(aired) : aired[i] = Owed[i]
    /\ Len(Owed) \in Len(aired) .. Len(aired) + 1

\* The packets delivered are numbered upwards from since.
Paced ==
  delivered # <<>> => since >= 0 /\ Len(delivered) <= delivered[Len(delivered)].len - since

LEMMA AfterReceivePaced == IInv /\ DInv /\ Paced /\ AfterReceive => Paced'
<1> SUFFICES ASSUME IInv, DInv, Paced, AfterReceive PROVE Paced'
  OBVIOUS
<1>1. /\ pc = "receive" /\ step = "ret" /\ ok /\ since >= 0 /\ UNCHANGED since
  BY DEF AfterReceive, Returned, IInv, Configured, chip, hist
<1>2. CASE ~rcv.got
  BY <1>1, <1>2 DEF AfterReceive, Paced
<1>3. CASE rcv.got
  <2>1. /\ Len(delivered') = Len(delivered) + 1
        /\ delivered'[Len(delivered) + 1].len = rcv.len
    BY <1>3, Delivers DEF Packet
  <2>2. Fresh(rcv.len)
    BY <1>1, <1>3 DEF DInv, Reading, HasPacket
  <2>3. Numbers
    BY TypesNumbers DEF IInv
  <2>4. CASE delivered = <<>>
    <3>1. Len(delivered) = 0
      BY <2>4
    <3> QED
      BY <1>1, <2>1, <2>2, <2>3, <3>1 DEF Paced, Fresh, Numbers
  <2>5. CASE delivered # <<>>
    <3>1. Len(delivered) \in DOMAIN delivered
      BY <2>3, <2>5, MainParts, EmptySeq DEF IInv, MainTypeOK, Numbers
    <3>2. delivered[Len(delivered)].len < rcv.len /\ delivered[Len(delivered)].len \in Int
      BY <2>2, <2>3, <3>1 DEF Fresh, Numbers
    <3> QED
      BY <1>1, <2>1, <2>3, <2>5, <3>2 DEF Paced, Numbers
  <2> QED
    BY <2>4, <2>5
<1> QED
  BY <1>2, <1>3

LEMMA NextPaced == IInv /\ DInv /\ Paced /\ [Next]_vars => Paced'
<1> SUFFICES ASSUME IInv, DInv, Paced, [Next]_vars PROVE Paced'
  OBVIOUS
<1>1. ASSUME UNCHANGED <<delivered, since>> PROVE Paced'
  BY <1>1 DEF Paced
<1>2. CASE Start
  BY <1>2 DEF Start, Paced
<1>3. CASE Main
  <2>1. AfterReceive \/ UNCHANGED <<delivered, since>>
    BY <1>3 DEF Main, AfterReset, AfterVersion, AfterBegin, AfterTxHex, AfterListen, LoopHead,
       CheckRadio, DioReadFails, AfterRepeat, CallFailed, chip, hist
  <2> QED
    BY <1>1, <2>1, AfterReceivePaced
<1>4. CASE DriverStep
  <2>1. CASE Write("b_sleep", "b_version", Sleep)
    <3>1. pc = "begin"
      BY <1>4, <2>1, SiteOfStep, MainParts DEF DriverStep, IInv, MainTypeOK, Write, Transfer
    <3>2. delivered' = <<>>
      BY <1>4, <3>1 DEF DriverStep, main, IInv, Counted
    <3> QED
      BY <3>2 DEF Paced
  <2> QED
    BY <1>1, <1>4, <2>1, DriverHistory DEF DriverStep, main
<1>5. CASE ChipStep \/ HandleSignal \/ Crash \/ Clock \/ UNCHANGED vars
  BY <1>1, <1>5 DEF ChipStep, Hear, FinishTx, HandleSignal, Crash, Clock, DeadlinePasses, vars,
     chip, hist, main
<1> QED
  BY <1>2, <1>3, <1>4, <1>5 DEF Next, System

Sendable == [data : Content, len : Content]

\* What StoreAndForward keeps: the packets sent are the first of those owed,
\* and at most one of these is to be sent.
SentIsPrefix ==
  /\ OwedNow \in Seq(Sendable) /\ SentNow \in Seq(Sendable)
  /\ Len(OwedNow) \in Len(SentNow) .. Len(SentNow) + 1
  /\ \A i \in 1 .. Len(SentNow) : SentNow[i] = OwedNow[i]

LEMMA RepeaterPrefix == SentIsPrefix /\ [Repeater!Next]_<<OwedNow, SentNow>> => SentIsPrefix'
<1> DEFINE o == OwedNow
           n == SentNow
           P == Sendable
<1> SUFFICES ASSUME SentIsPrefix, [Repeater!Next]_<<OwedNow, SentNow>> PROVE SentIsPrefix'
  OBVIOUS
<1>0. /\ o \in Seq(P) /\ n \in Seq(P) /\ Len(o) \in Nat /\ Len(n) \in Nat
      /\ Len(o) \in Len(n) .. Len(n) + 1 /\ \A i \in 1 .. Len(n) : n[i] = o[i]
  BY DEF SentIsPrefix
<1>1. CASE Repeater!Accept
  <2>1. PICK p \in P : o' = Append(o, p)
    BY <1>1 DEF Repeater!Accept, Sendable
  <2>2. n = o /\ n' = n
    BY <1>1 DEF Repeater!Accept
  <2> HIDE DEF o, n, P
  <2>3. /\ o' \in Seq(P) /\ Len(o') = Len(o) + 1 /\ \A i \in 1 .. Len(o) : o'[i] = o[i]
    BY <1>0, <2>1, AppendProperties
  <2>4. /\ n' \in Seq(P) /\ Len(o') \in Len(n') .. Len(n') + 1
        /\ \A i \in 1 .. Len(n') : n'[i] = o'[i]
    BY <1>0, <2>2, <2>3
  <2> QED
    BY <2>3, <2>4 DEF SentIsPrefix, o, n, P
<1>2. CASE Repeater!Transmit
  <2>1. Len(n) < Len(o) /\ n' = Append(n, o[Len(n) + 1]) /\ o' = o
    BY <1>2 DEF Repeater!Transmit
  <2> HIDE DEF o, n, P
  <2>2. o[Len(n) + 1] \in P
    BY <1>0, <2>1, ElementOfSeq
  <2>3. /\ n' \in Seq(P) /\ Len(n') = Len(n) + 1 /\ n'[Len(n) + 1] = o[Len(n) + 1]
        /\ \A i \in 1 .. Len(n) : n'[i] = n[i]
    BY <1>0, <2>1, <2>2, AppendProperties
  <2>4. /\ o' \in Seq(P) /\ Len(o') \in Len(n') .. Len(n') + 1
        /\ \A i \in 1 .. Len(n') : n'[i] = o'[i]
    BY <1>0, <2>1, <2>3
  <2> QED
    BY <2>3, <2>4 DEF SentIsPrefix, o, n, P
<1>3. CASE Repeater!Restart
  BY <1>3 DEF Repeater!Restart, SentIsPrefix
<1>4. CASE UNCHANGED <<OwedNow, SentNow>>
  BY <1>4 DEF SentIsPrefix
<1> QED
  BY <1>1, <1>2, <1>3, <1>4 DEF Repeater!Next

\* How much is owed.
LEMMA OwedLength ==
  ASSUME IInv
  PROVE  Len(Owed) <= (IF conf.tx = "none" THEN 0 ELSE 1)
                        + (IF conf.repeat THEN Len(delivered) ELSE 0)
<1> DEFINE h == IF stats.ready /\ conf.tx # "none" THEN <<HexPacket>> ELSE <<>>
           d == IF conf.repeat THEN delivered ELSE <<>>
           R == [data : Content, len : Content]
<1>1. HexPacket \in R /\ delivered \in Seq([data : Content, len : Frame])
  BY MainParts, SlotFacts DEF IInv, MainTypeOK, HexPacket
<1>2. h \in Seq({HexPacket}) /\ Len(h) \in Nat /\ Len(h) <= (IF conf.tx = "none" THEN 0 ELSE 1)
  <2>1. CASE stats.ready /\ conf.tx # "none"
    <3>1. h = <<HexPacket>>
      BY <2>1
    <3>2. <<HexPacket>> \in Seq({HexPacket}) /\ Len(<<HexPacket>>) = 1
      OBVIOUS
    <3> QED
      BY <2>1, <3>1, <3>2
  <2>2. CASE ~(stats.ready /\ conf.tx # "none")
    <3>1. h = <<>>
      BY <2>2
    <3> QED
      BY <3>1
  <2> QED
    BY <2>1, <2>2
<1>3. d \in Seq([data : Content, len : Frame]) /\ Len(d) = (IF conf.repeat THEN Len(delivered) ELSE 0)
  BY <1>1
<1>4. Owed = h \o d
  BY DEF Owed
<1> HIDE DEF h, d
<1>5. Len(Owed) = Len(h) + Len(d) /\ Len(d) \in Nat
  BY <1>2, <1>3, <1>4
<1> QED
  BY <1>2, <1>3, <1>5

\* The air hears from a daemon no more than the daemon has heard from it,
\* whatever is lost, overrun or repeated meanwhile.
THEOREM NeverAmplifies == Spec => []NoAmplification
<1>1. Init => Paced /\ SentIsPrefix
  BY DEF Init, ChipInit, Paced, SentIsPrefix, OwedNow, SentNow
<1>2. IInv /\ SentIsPrefix /\ [Next]_vars => SentIsPrefix'
  BY NextRepeats, RepeaterPrefix
<1>3. IInv /\ DInv /\ Paced /\ SentIsPrefix => NoAmplification
  <2> SUFFICES ASSUME IInv, DInv, Paced, SentIsPrefix, since >= 0
               PROVE  /\ Len(delivered) <= Len(heard) - since
                      /\ Len(aired) <= (IF conf.tx = "none" THEN 0 ELSE 1)
                                         + (IF conf.repeat THEN Len(heard) - since ELSE 0)
                      /\ \A i \in 1 .. Len(aired) : aired[i] = Owed[i]
                      /\ Len(Owed) \in Len(aired) .. Len(aired) + 1
    BY DEF NoAmplification
  <2>1. Numbers
    BY TypesNumbers DEF IInv
  <2>2. OwedNow = Owed /\ SentNow = aired
    BY DEF OwedNow, SentNow
  <2>3. /\ \A i \in 1 .. Len(aired) : aired[i] = Owed[i]
        /\ Len(Owed) \in Len(aired) .. Len(aired) + 1 /\ Len(aired) \in Nat /\ Len(Owed) \in Nat
    BY <2>2 DEF SentIsPrefix
  <2>4. Len(delivered) <= Len(heard) - since
    <3>1. CASE delivered = <<>>
      BY <2>1, <3>1 DEF Numbers
    <3>2. CASE delivered # <<>>
      <4>1. Len(delivered) \in DOMAIN delivered
        BY <2>1, <3>2, MainParts, EmptySeq DEF IInv, MainTypeOK, Numbers
      <4>2. delivered[Len(delivered)].len <= Len(heard)
        BY <4>1 DEF DInv, Arrivals
      <4> QED
        BY <2>1, <3>2, <4>1, <4>2 DEF Paced, Numbers
    <3> QED
      BY <3>1, <3>2
  <2>5. /\ conf.repeat => Len(Owed) <= (IF conf.tx = "none" THEN 0 ELSE 1) + Len(delivered)
        /\ ~conf.repeat => Len(Owed) <= (IF conf.tx = "none" THEN 0 ELSE 1) + 0
    BY OwedLength, Zenon
  <2>6. Len(aired) <= Len(Owed) /\ Len(heard) - since \in Nat /\ Len(delivered) \in Nat
    BY <2>1, <2>3 DEF Numbers
  <2>7. CASE conf.repeat
    BY <2>1, <2>3, <2>4, <2>5, <2>6, <2>7 DEF Numbers
  <2>8. CASE ~conf.repeat
    BY <2>1, <2>3, <2>4, <2>5, <2>6, <2>8 DEF Numbers
  <2> QED
    BY <2>7, <2>8
<1> QED
  BY <1>1, <1>2, <1>3, NextPaced, Invariance, DeliveryInvariance, PTL DEF Spec
=============================================================================
