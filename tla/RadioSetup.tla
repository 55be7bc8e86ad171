----------------------------- MODULE RadioSetup -----------------------------
(***************************************************************************)
(* From the lines of the file to what is on the air: the daemon loads its  *)
(* Config (ConfigFile), and begin_lora() and rx_continuous() write it into *)
(* the modem registers, one SPI transfer each, byte by byte.               *)
(*                                                                         *)
(* The chip keeps its registers and its mode when the process ends, at any *)
(* point, and when the next one has another file, unless RESET is wired.   *)
(* Registers that do not depend on the Config are modules RadioDaemon's.   *)
(***************************************************************************)
EXTENDS ConfigFile

CONSTANT MaxRuns   \* bound on the processes between two losses of power

ASSUME RunsAssumption == MaxRuns \in Nat \ {0}

\* Frequencies are below 2^45: above, the uint64_t of set_frequency() overflows.
ASSUME FrequencyAssumption ==
  \A f \in Files : \A i \in DOMAIN f :
    Sets(f[i], "frequency") /\ f[i].word \in DOMAIN Number =>
      Number[f[i].word] \div 1048576 < 33554432

VARIABLES
  phase,   \* of the daemon: "idle", "sleep", "setup", "air", "ended"
  step,    \* registers that "setup" has written
  regs,    \* the modem registers, bytes
  mode,    \* RegOpMode
  tuned,   \* history: the Config that was last written to its end, if the chip has
           \* not been reset since: a set, empty or of that Config
  runs     \* processes started since the power came on

chip == <<regs, mode, tuned>>
vars == <<loader, phase, step, chip, runs>>

\* The order in which begin_lora() writes them.  It writes the start of the two
\* halves of the FIFO and the gain of the receiver too, after the carrier: the
\* same bytes for every Config, which no property here depends on.
Order ==
  <<"FR_MSB", "FR_MID", "FR_LSB",
    "MODEM_CONFIG_1", "MODEM_CONFIG_2", "MODEM_CONFIG_3",
    "DETECT_OPTIMIZE", "DETECTION_THRESHOLD",
    "PA_CONFIG", "SYNC_WORD", "PREAMBLE_MSB", "PREAMBLE_LSB">>
Registers ==
  {"FR_MSB", "FR_MID", "FR_LSB", "MODEM_CONFIG_1", "MODEM_CONFIG_2", "MODEM_CONFIG_3",
   "DETECT_OPTIMIZE", "DETECTION_THRESHOLD", "PA_CONFIG", "SYNC_WORD",
   "PREAMBLE_MSB", "PREAMBLE_LSB"}

PowerOn ==
  [r \in Registers |->
     CASE r = "FR_MSB" -> 108 [] r = "FR_MID" -> 128 [] r = "FR_LSB" -> 0
       [] r = "MODEM_CONFIG_1" -> 114 [] r = "MODEM_CONFIG_2" -> 112 [] r = "MODEM_CONFIG_3" -> 0
       [] r = "DETECT_OPTIMIZE" -> 195 [] r = "DETECTION_THRESHOLD" -> 10
       [] r = "PA_CONFIG" -> 79 [] r = "SYNC_WORD" -> 18
       [] r = "PREAMBLE_MSB" -> 0 [] r = "PREAMBLE_LSB" -> 8]

-----------------------------------------------------------------------------
(* What the driver makes of a Config c.                                    *)

Sf(c) == c["spreading_factor"].number
Cr(c) == c["coding_rate"].number
Bw(c) == c["bandwidth"].number

\* bandwidth_to_reg()
Bandwidths ==
  {7800, 7810, 10400, 10420, 15600, 15625, 20800, 20830, 31250, 41700, 41670,
   62500, 125000, 250000, 500000}
BandwidthReg(b) ==
  CASE b \in {7800, 7810} -> 0
    [] b \in {10400, 10420} -> 1
    [] b \in {15600, 15625} -> 2
    [] b \in {20800, 20830} -> 3
    [] b = 31250 -> 4
    [] b \in {41700, 41670} -> 5
    [] b = 62500 -> 6
    [] b = 125000 -> 7
    [] b = 250000 -> 8
    [] b = 500000 -> 9

Accepted(c) == Sf(c) \in 6 .. 12 /\ Cr(c) \in 5 .. 8 /\ Bw(c) \in Bandwidths

\* Mutant: a step is taken for 61 Hz.
FrfOf61(f) == f \div 61

\* (frequency << 19) / 32000000 for frequencies below 2^45, whose shift does
\* not overflow, in numbers that stay small.
Frf(f) == (f \div 15625) * 256 + ((f % 15625) * 256) \div 15625

\* 1UL << spreading_factor, for 6 .. 12.
Chips(sf) == <<64, 128, 256, 512, 1024, 2048, 4096>>[sf - 5]

\* symbol_seconds > 0.016
LongSymbol(c) == 125 * Chips(Sf(c)) > 2 * Bw(c)

Clamp(p) == IF p < 2 THEN 2 ELSE IF p > 17 THEN 17 ELSE p

Byte(r, c) ==
  CASE r = "FR_MSB" -> (Frf(c["frequency"].number) \div 65536) % 256
    [] r = "FR_MID" -> (Frf(c["frequency"].number) \div 256) % 256
    [] r = "FR_LSB" -> Frf(c["frequency"].number) % 256
    [] r = "MODEM_CONFIG_1" -> BandwidthReg(Bw(c)) * 16 + (Cr(c) - 4) * 2
    [] r = "MODEM_CONFIG_2" -> Sf(c) * 16 + 4
    [] r = "MODEM_CONFIG_3" -> IF LongSymbol(c) THEN 12 ELSE 4
    [] r = "DETECT_OPTIMIZE" -> IF Sf(c) = 6 THEN 5 ELSE 3
    [] r = "DETECTION_THRESHOLD" -> IF Sf(c) = 6 THEN 12 ELSE 10
    [] r = "PA_CONFIG" -> 128 + Clamp(c["tx_power"].number) - 2
    [] r = "SYNC_WORD" -> c["sync_word"].number % 256
    [] r = "PREAMBLE_MSB" -> 0
    [] r = "PREAMBLE_LSB" -> 8

-----------------------------------------------------------------------------
SetupInit ==
  /\ Init
  /\ phase = "idle" /\ step = 0 /\ runs = 1
  /\ regs = PowerOn /\ mode = "STDBY" /\ tuned = {}

\* The chip after RESET, or with its power back.
ChipReset == regs' = PowerOn /\ mode' = "STDBY" /\ tuned' = {}

\* The process ends: an error is returned, or it is killed.
Ends == phase' = "ended" /\ UNCHANGED step

LoadConfig ==
  /\ phase = "idle" /\ Load
  /\ UNCHANGED <<phase, step, chip, runs>>

\* The web server, the pins, hardware_reset() and RegVersion.
Open ==
  /\ at = "loaded" /\ phase = "idle"
  /\ (phase' = "sleep" /\ UNCHANGED step) \/ Ends
  /\ \/ ChipReset /\ conf["pin_reset"].number >= 0
     \/ UNCHANGED chip /\ (conf["pin_reset"].number < 0 \/ phase' = "ended")
  /\ UNCHANGED <<loader, runs>>

\* sleep() of begin_lora().  A transfer that fails may have reached the chip.
Sleep ==
  /\ phase = "sleep"
  /\ \/ phase' = "setup" /\ step' = 0 /\ mode' = "SLEEP"
     \/ Ends /\ mode' \in {mode, "SLEEP"}
  /\ UNCHANGED <<loader, regs, tuned, runs>>

\* set_modem_config() looks at the Config before its first write.
Reject ==
  /\ phase = "setup" /\ step = 3 /\ ~Accepted(conf)
  /\ Ends
  /\ UNCHANGED <<loader, chip, runs>>

\* Mutant: the two registers of the detection are written for SF6 only.
WriteRegSf6Only ==
  /\ phase = "setup" /\ step < Len(Order) /\ (step = 3 => Accepted(conf))
  /\ LET r == Order[step + 1]
         kept == r \in {"DETECT_OPTIMIZE", "DETECTION_THRESHOLD"} /\ Sf(conf) # 6
         written == [regs EXCEPT ![r] = IF kept THEN @ ELSE Byte(r, conf)]
     IN  \/ regs' = written /\ step' = step + 1 /\ UNCHANGED phase
         \/ Ends /\ regs' \in {regs, written}
  /\ tuned' = IF step' = Len(Order) THEN {conf} ELSE tuned
  /\ UNCHANGED <<loader, mode, runs>>

WriteReg ==
  /\ phase = "setup" /\ step < Len(Order) /\ (step = 3 => Accepted(conf))
  /\ LET r == Order[step + 1]
         written == [regs EXCEPT ![r] = Byte(r, conf)]
     IN  \/ regs' = written /\ step' = step + 1 /\ UNCHANGED phase
         \/ Ends /\ regs' \in {regs, written}
  /\ tuned' = IF step' = Len(Order) THEN {conf} ELSE tuned
  /\ UNCHANGED <<loader, mode, runs>>

\* standby(), rx_continuous() and transmit_packet() change the mode only.
ChangeMode ==
  /\ (phase = "setup" /\ step = Len(Order)) \/ phase = "air"
  /\ (phase' = "air" /\ UNCHANGED step) \/ Ends
  /\ mode' \in {mode, "STDBY", "TX", "RX"}
  /\ UNCHANGED <<loader, regs, tuned, runs>>

\* SIGKILL, an error or the end of the loop, anywhere.
End ==
  /\ phase \notin {"idle", "ended"}
  /\ Ends
  /\ UNCHANGED <<loader, chip, runs>>

\* A new process, with the file as it is then; after a loss of power, with a
\* chip in its initial state.
StartAgain ==
  /\ phase = "ended" \/ at = "failed"
  /\ Restart
  /\ phase' = "idle" /\ step' = 0
  /\ \/ UNCHANGED chip /\ runs < MaxRuns /\ runs' = runs + 1
     \/ ChipReset /\ runs' = 1

SetupNext ==
  LoadConfig \/ Open \/ Sleep \/ Reject \/ WriteReg \/ ChangeMode \/ End \/ StartAgain

SetupSpec == SetupInit /\ [][SetupNext]_vars

-----------------------------------------------------------------------------
(* Properties.  What the chip makes of its registers, by its data sheet.   *)

ChipFrf == (regs["FR_MSB"] * 65536) + (regs["FR_MID"] * 256) + regs["FR_LSB"]
\* How far f is above the whole 15625 Hz of a carrier.
Above(f, frf) == (f % 1024000000) - (frf \div 256) * 15625
\* That is n steps of 15625 / 256 Hz, and less than another one.
WithinStep(hertz, n) == (256 * hertz) - (n * 15625) \in 0 .. 15624
ChipSf == regs["MODEM_CONFIG_2"] \div 16
ChipCr == ((regs["MODEM_CONFIG_1"] % 16) \div 2) + 4
Nominal(reg) ==
  <<7812, 10417, 15625, 20833, 31250, 41667, 62500, 125000, 250000, 500000>>[reg + 1]
ChipBw == Nominal(regs["MODEM_CONFIG_1"] \div 16)
ChipPower == 2 + (regs["PA_CONFIG"] % 16)

\* Every variable keeps its type: what is written fits into a byte.
SetupTypeOK ==
  /\ TypeOK
  /\ phase \in {"idle", "sleep", "setup", "air", "ended"}
  /\ step \in 0 .. Len(Order) /\ runs \in 1 .. MaxRuns
  /\ regs \in [Registers -> 0 .. 255]
  /\ mode \in {"SLEEP", "STDBY", "TX", "RX"}
  /\ \A c \in tuned : DOMAIN c = Keys /\ Accepted(c)

OnAir == mode \in {"TX", "RX"}

\* The number that the file gives to a key, as the daemon has read it: no
\* number if the value does not fit into the field.
Written(k) ==
  {Parsed(Read(file[i])) : i \in {j \in 1 .. line : Current(k, j)}}
    \union (IF \E i \in 1 .. line : Sets(file[i], k) THEN {} ELSE {Default[k].number})

\* A daemon on the air uses the modulation that its file says: carrier (which
\* the registers count modulo 1.024 GHz, in steps of 61 Hz), spreading factor,
\* coding rate, bandwidth, power within what the amplifier does, sync word;
\* whatever the file of an earlier process said, and where that one ended.
OnAirAsWritten ==
  phase = "air" /\ OnAir =>
    /\ \A f \in Written("frequency") : WithinStep(Above(f, ChipFrf), ChipFrf % 256)
    /\ \A n \in Written("spreading_factor") \intersect Ints : ChipSf = n
    /\ \A n \in Written("coding_rate") \intersect Ints : ChipCr = n
    /\ \A n \in Written("bandwidth") \intersect Ints : ChipBw - n \in -50 .. 50
    /\ \A n \in Written("tx_power") \intersect Ints :
         ChipPower = IF n < 2 THEN 2 ELSE IF n > 17 THEN 17 ELSE n
    /\ \A n \in Written("sync_word") \intersect Ints : regs["SYNC_WORD"] = n % 256

\* The registers are those of Config c, every one of them.
Agrees(c) == \A r \in Registers : regs[r] = Byte(r, c)

\* The chip is on the air only with the registers of one Config, which has been
\* written to its end since the last reset: never with some of one process and
\* some of another, nor with what the chip starts with; not between two
\* processes either, nor while the next one writes its own.  (Whether
\* what one Config makes of them works is not said: spreading_factor 6 needs the
\* implicit header mode by the chip's data sheet, and MODEM_CONFIG_1 never has it.)
OnAirIsOneConfig == OnAir => \E c \in tuned : Agrees(c)
=============================================================================
