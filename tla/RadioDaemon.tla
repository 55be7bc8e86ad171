---------------------------- MODULE RadioDaemon ----------------------------
(***************************************************************************)
(* The daemon's main() of src/src/main.cpp: start-up, the receive loop and *)
(* raw repeating, on top of the driver (Sx1276) and the chip (Sx1276Chip). *)
(*                                                                         *)
(* pc is the place in main(): the driver call that is running or has just  *)
(* returned ("reset", "version", "begin", "txhex", "listen", "receive",    *)
(* "repeat"), the head of the while loop ("loop"), or the body up to the   *)
(* DIO0 check ("tick": web.tick() runs there, the only place from where    *)
(* stats can be seen).  "down" is no process.  A process may be started    *)
(* again, after any exit or crash, on the chip as the last one left it.    *)
(***************************************************************************)
EXTENDS Sx1276

CONSTANT
  Confs   \* the configurations and command lines a process is started with

ASSUME ConfsAssumption ==
  /\ Confs # {}
  /\ Confs \subseteq [reset : BOOLEAN,    \* pin_reset is set
                      dio0 : BOOLEAN,     \* pin_dio0 is set
                      repeat : BOOLEAN,   \* role is repeater and repeat_raw is on
                      probe : BOOLEAN,    \* --probe
                      tx : {"none", "fits", "long"}]  \* --tx-hex, up to or over 255 bytes

VARIABLES
  pc,
  conf,
  running,    \* g_running
  stats,      \* DaemonStats
  delivered   \* history: the packets main() got from receive_packet

main == <<pc, conf, running, stats, delivered>>
vars == <<chip, driver, main>>

ZeroStats == [rx |-> 0, tx |-> 0, rxErr |-> 0, txErr |-> 0, ready |-> FALSE, listening |-> FALSE]
Packet(p) == [data |-> p.data, len |-> p.len]
HexPacket == [data |-> Hex, len |-> Hex]

Init ==
  /\ ChipInit
  /\ DriverInit
  /\ pc = "down" /\ conf \in Confs /\ running = FALSE
  /\ stats = ZeroStats /\ delivered = <<>>

-----------------------------------------------------------------------------
Call(site, first) == pc' = site /\ step' = first /\ ok' = TRUE
Returned(site) == pc = site /\ step = "ret" /\ ok
Leave == pc' = "down" /\ UNCHANGED <<step, ok>>
Count(field) == [stats EXCEPT ![field] = @ + 1]

Start ==
  /\ pc = "down"
  /\ conf' \in Confs
  /\ IF conf'.reset THEN Call("reset", "reset") ELSE Call("version", "version")
  /\ running' = TRUE
  /\ stats' = ZeroStats /\ delivered' = <<>>
  /\ cfg' = FALSE /\ since' = -1
  /\ seen' = {} /\ rcv' = Nothing /\ payload' = NoPayload /\ expired' = FALSE /\ mark' = 0
  /\ UNCHANGED <<mode, irq, dio, fifo, ptr, rx, wr, txlen, heard, aired>>

AfterReset ==
  /\ Returned("reset")
  /\ Call("version", "version")
  /\ UNCHANGED <<chip, locals, conf, running, stats, delivered>>

AfterVersion ==
  /\ Returned("version")
  /\ IF conf.probe THEN Leave ELSE Call("begin", "b_sleep")
  /\ UNCHANGED <<chip, locals, conf, running, stats, delivered>>

AfterBegin ==
  /\ Returned("begin")
  /\ stats' = [stats EXCEPT !.ready = TRUE]
  /\ IF conf.tx = "none"
       THEN Call("listen", "r_stdby") /\ UNCHANGED payload
       ELSE /\ Call("txhex", "t_size")
            /\ payload' = [data |-> Hex, len |-> Hex, fits |-> conf.tx = "fits"]
  /\ UNCHANGED <<chip, seen, rcv, expired, mark, conf, running, delivered>>

AfterTxHex ==
  /\ Returned("txhex")
  /\ stats' = Count("tx")
  /\ Call("listen", "r_stdby")
  /\ UNCHANGED <<chip, locals, conf, running, delivered>>

AfterListen ==
  /\ Returned("listen")
  /\ stats' = [stats EXCEPT !.listening = TRUE]
  /\ pc' = "loop"
  /\ UNCHANGED <<chip, driver, conf, running, delivered>>

\* while (g_running)
LoopHead ==
  /\ pc = "loop"
  /\ pc' = IF running THEN "tick" ELSE "down"
  /\ UNCHANGED <<chip, driver, conf, running, stats, delivered>>

\* The DIO0 pin gates receive_packet; without the pin, every turn polls.
CheckRadio ==
  /\ pc = "tick"
  /\ IF conf.dio0 => DioHigh
       THEN Call("receive", "p_irq")
       ELSE pc' = "loop" /\ UNCHANGED <<step, ok>>
  /\ UNCHANGED <<chip, locals, conf, running, stats, delivered>>

DioReadFails ==
  /\ pc = "tick" /\ conf.dio0 /\ Faults
  /\ Leave
  /\ UNCHANGED <<chip, locals, conf, running, stats, delivered>>

\* Mutant: a repeater skips an empty frame without a word.
AfterReceiveSkip ==
  /\ Returned("receive")
  /\ IF rcv.got
       THEN stats' = Count("rx") /\ delivered' = Append(delivered, Packet(rcv))
       ELSE UNCHANGED <<stats, delivered>>
  /\ IF rcv.got /\ conf.repeat /\ ~Empty(rcv.len)
       THEN /\ payload' = [data |-> rcv.data, len |-> rcv.len, fits |-> TRUE]
            /\ Call("repeat", "t_size")
       ELSE UNCHANGED <<payload, step, ok>> /\ pc' = "loop"
  /\ UNCHANGED <<chip, seen, rcv, expired, mark, conf, running>>

AfterReceive ==
  /\ Returned("receive")
  /\ IF rcv.got
       THEN stats' = Count("rx") /\ delivered' = Append(delivered, Packet(rcv))
       ELSE UNCHANGED <<stats, delivered>>
  /\ IF rcv.got /\ conf.repeat
       THEN /\ payload' = [data |-> rcv.data, len |-> rcv.len, fits |-> ~Empty(rcv.len)]
            /\ Call("repeat", "t_size")
       ELSE UNCHANGED <<payload, step, ok>> /\ pc' = "loop"
  /\ UNCHANGED <<chip, seen, rcv, expired, mark, conf, running>>

\* Mutant: a repeated packet is not counted.
AfterRepeatUncounted ==
  /\ Returned("repeat")
  /\ pc' = "loop"
  /\ UNCHANGED <<chip, driver, conf, running, stats, delivered>>

AfterRepeat ==
  /\ Returned("repeat")
  /\ stats' = Count("tx")
  /\ pc' = "loop"
  /\ UNCHANGED <<chip, driver, conf, running, delivered>>

\* Every failed driver call ends the process.
CallFailed ==
  /\ pc \notin {"down", "loop", "tick"} /\ step = "ret" /\ ~ok
  /\ stats' = CASE pc = "receive" -> Count("rxErr")
                [] pc \in {"txhex", "repeat"} -> Count("txErr")
                [] OTHER -> stats
  /\ Leave
  /\ UNCHANGED <<chip, locals, conf, running, delivered>>

\* SIGINT or SIGTERM: handle_signal only lowers the flag.
HandleSignal ==
  /\ pc # "down" /\ running
  /\ running' = FALSE
  /\ UNCHANGED <<chip, driver, pc, conf, stats, delivered>>

\* SIGKILL, or any other sudden death.  Nothing is told to the chip.
Crash ==
  /\ Faults
  /\ pc # "down"
  /\ pc' = "down"
  /\ UNCHANGED <<chip, driver, conf, running, stats, delivered>>

-----------------------------------------------------------------------------
Main ==
  \/ AfterReset \/ AfterVersion \/ AfterBegin \/ AfterTxHex \/ AfterListen
  \/ LoopHead \/ CheckRadio \/ DioReadFails \/ AfterReceive \/ AfterRepeat \/ CallFailed

DriverStep == pc # "down" /\ Driver /\ UNCHANGED main

ChipStep == (Hear \/ FinishTx) /\ UNCHANGED <<driver, main>>

Clock == pc # "down" /\ DeadlinePasses /\ UNCHANGED main

\* The code that runs: what main() does, and the driver it calls.
System == Main \/ DriverStep

Next == Start \/ System \/ HandleSignal \/ Crash \/ ChipStep \/ Clock

Spec == Init /\ [][Next]_vars

\* The process keeps executing and the clock keeps running.  Nothing is
\* assumed of the chip, of the air, of signals or of whoever starts daemons.
Fairness == WF_vars(System) /\ WF_vars(Clock)

FairSpec == Spec /\ Fairness

-----------------------------------------------------------------------------
(* Properties.                                                             *)

\* Every variable keeps its type; what main() counts is a natural number.
TypeOK ==
  /\ ChipTypeOK /\ DriverTypeOK
  /\ pc \in {"down", "reset", "version", "begin", "txhex", "listen", "loop", "tick",
             "receive", "repeat"}
  /\ conf \in Confs /\ running \in BOOLEAN
  /\ stats \in [rx : Nat, tx : Nat, rxErr : Nat, txErr : Nat, ready : BOOLEAN,
                listening : BOOLEAN]
  /\ delivered \in Seq([data : Content, len : Frame])

\* The packets this process has to put on the air: the --tx-hex payload,
\* then, on a repeater, every packet received.
Owed ==
  (IF stats.ready /\ conf.tx # "none" THEN <<HexPacket>> ELSE <<>>)
    \o (IF conf.repeat THEN delivered ELSE <<>>)

\* Whenever the web server can show DaemonStats (web.tick() runs at "tick"
\* only), what it shows is true: the chip is in continuous receive with DIO0
\* on RxDone, under this process's configuration; rx_packets counts the
\* packets handed to main(), tx_packets the packets that were on the air, and
\* none is owed.  The error counters always show 0, since main() exits on
\* each error it counts.
ServedStatsAreTrue ==
  pc = "tick" =>
    /\ stats.ready /\ stats.listening
    /\ mode = "RXCONT" /\ dio = "RX_DONE" /\ cfg
    /\ stats.rx = Len(delivered)
    /\ stats.tx = Len(aired) /\ aired = Owed
    /\ stats.rxErr = 0 /\ stats.txErr = 0

\* A process that has taken the chip never lets it receive or send with modem
\* registers that another process or the reset left there.
ConfiguredOnAir ==
  pc # "down" /\ since >= 0 /\ mode \in {"TX", "RXCONT"} => cfg

\* Across restarts, overruns and failed transfers: a process hands on only
\* frames heard after it took the chip, in the order heard, and none twice.
DeliveredOnceInOrder ==
  \A i \in DOMAIN delivered :
    /\ delivered[i].len > since
    /\ delivered[i].data = Garbage \/ delivered[i].data > since
    /\ \A j \in 1 .. i - 1 : delivered[j].len < delivered[i].len

\* When no frame completed between receive_packet's reads of the flags and of
\* the FIFO, the packet is one frame: its length, SNR, RSSI and bytes belong
\* together.  With the DIO0 pin its CRC was right as well; without the pin a
\* CRC flag can be lost to the acknowledgement of an earlier frame.
DeliveredIntact ==
  pc = "receive" /\ step = "ret" /\ ok /\ rcv.got /\ rcv.clean =>
    /\ mark \in DOMAIN heard
    /\ rcv.len = mark /\ rcv.snr = mark /\ rcv.rssi = mark
    /\ heard[mark].empty \/ rcv.data = mark
    /\ conf.dio0 => heard[mark].good

\* Without hardware faults and with a configuration that the driver accepts, a
\* process ends only on a signal, after --probe, or in a transmission that
\* exceeds its deadline or is given a payload that transmit_packet refuses (a
\* repeater that hears an empty frame included).
EndsOnlyFor ==
  [][ ~Faults /\ pc # "down" /\ pc' = "down" =>
        \/ ~running \/ conf.probe
        \/ pc \in {"txhex", "repeat"} /\ (expired \/ ~payload.fits) ]_vars

\* The packets owed and sent, while a process has the chip.
OwedNow == IF since >= 0 THEN Owed ELSE <<>>
SentNow == IF since >= 0 THEN aired ELSE <<>>

Repeater == INSTANCE StoreAndForward WITH
  Packets <- [data : Content, len : Content],
  owed <- OwedNow,
  sent <- SentNow

\* Seen from the air the daemon is a repeater with a queue of one packet: every
\* packet it sends is the next one it owes, complete and exactly once.
RepeatsFaithfully == Repeater!Spec

\* A living process can always take a step: no call of the driver waits for
\* the chip without a deadline, and no result of a call goes unhandled.
CanStep ==
  /\ pc # "down" => ENABLED <<System>>_vars
  /\ pc # "down" /\ step \in {"t_wait", "t_poll"} /\ ~expired => ENABLED <<Clock>>_vars

\* A frame waiting at the head of the loop is served: its RxDone is
\* acknowledged, unless the process is told to stop or dies.
WaitingFrameServed ==
  (pc = "loop" /\ "RX_DONE" \in irq /\ running)
    ~> ("RX_DONE" \notin irq \/ ~running \/ pc = "down")

\* After SIGTERM the process ends, wherever the signal found it and whatever
\* the chip does.
StopObeyed == (pc # "down" /\ ~running) ~> (pc = "down")

\* Every packet a process owes the air is sent, or the process ends.
OwedIsSent == (since >= 0 /\ aired # Owed) ~> (aired = Owed \/ pc = "down")
=============================================================================
