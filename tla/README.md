# A verification project for the MeshCore HE-4025 daemon

The repository is a Linux daemon for the Dragino HE-4025 gateway. It drives one
SX1276 LoRa transceiver over spidev and sysfs GPIO, receives frames, can repeat
them unchanged, and serves a small HTTP page with live statistics and an
over-the-air upgrade endpoint. The directory holds TLA+ modules translated from
`src/`, TLC configurations that check them on small instances, and proofs
checked by TLAPS that hold for every value of the constants.

## The system

| Component | Source | State | Operations | Module | Status |
|---|---|---|---|---|---|
| Daemon main loop | `src/src/main.cpp`, `stats.h` | `g_running`, `DaemonStats`, the place in `main()` | start-up, loop turn, repeat, signal | `RadioDaemon`; parts of start-up in `ChipSelect`, `ConfigFile` | partly |
| SX1276 driver | `src/src/sx1276.cpp` | locals of a running call | `hardware_reset`, `begin_lora`, `rx_continuous`, `receive_packet`, `transmit_packet`, `transfer` | `Sx1276`, `RadioSetup`, `ChipSelect` | modelled |
| SX1276 chip | external | registers, FIFO | hear a frame, finish a transmission | `Sx1276Chip` | as the driver uses it |
| OTA endpoint | `src/src/web_server.cpp:418-617` | `ota_in_progress`, the image file, two children | upload, validate, flash | `OtaUpdate` | modelled |
| Web server | `src/src/web_server.cpp` (rest) | listening socket, accept queue, the connection being served | tick, accept, headers, route, answer | `WebServer` | partly |
| Hardware access | `src/src/linux_hal.cpp` | spidev and its mode, sysfs pins | ioctl, pin writes, clock | `ChipSelect` | partly |
| Configuration | `src/src/config.cpp` | `Config` | parse a file, last assignment wins | `ConfigFile`, `RadioSetup` | modelled |
| Service script | `openwrt/files/etc/init.d/meshcore` | pid file, place in the script | start, stop, restart | `ServiceLifecycle` | modelled |
| Probe tool | `tools/sx1276_regversion.c` | the mode of the spidev | read RegVersion | `ChipSelect` | modelled |
| Build, boards, docs | `scripts/`, `boards/`, `docs/` | none | | | not modelled: no run-time state |

How they interact. The daemon has one thread. Its loop calls `web.tick()`, then
looks at DIO0 (or at nothing, without that pin), then calls the driver. What
runs concurrently with it is the chip, which receives and transmits between any
two SPI transfers; signals; HTTP clients; and the two `sysupgrade` children of
the OTA endpoint, which outlive the daemon. `DaemonStats` is written by
`main()` and by the endpoint and read by the pages, in the one thread, so that
what a client can see is the state at the one place where `tick()` runs. Any
process may end at any step and the next one finds the chip, the image file and
the children as it left them.

What is hard here:

* the chip changes registers while `receive_packet` reads them one by one;
* every one of the transfers may fail, before or after it took effect, and
  every failure ends the process with the chip half way;
* a restart without a reset pin inherits a chip in any state;
* DIO0 and the FIFO serve both directions;
* the deadline of a transmission races TxDone;
* the flashing child opens the image two seconds after it was validated;
* `ota_in_progress` is lowered by hand on each error path;
* a GPIO chip select stays as a failed write leaves it, a pin keeps its level and
  the spidev its mode when the process ends;
* one thread serves the radio and any number of slow clients;
* the registers of one process's configuration outlive it, and numbers of the
  file are narrowed on their way to them without a check;
* nothing locks the radio: the web port and the pid file have to do;
* a daemon obeys SIGTERM at the end of a turn, which the init script does not
  wait for.

`PROJECT.json` lists each of these at its line with the properties that watch it.

What makes each component correct: the driver delivers each frame once, in
order and unmixed; the daemon's statistics are true and what it repeats is what
it received; no process is on the air under another's configuration, nor the chip with
registers of two, and what is on the air is what its file says; a call of `transfer()` is one command to the
chip; the process ends when told to and for documented reasons only; clients are
served in order, with answers that fit, and read a bounded number of times between two
looks at the radio; the endpoint flashes the image it validated, for who has the secret, and tells the client the
truth; one process at a time uses the radio, and the script can stop the one it
started.

## The modules

    Sx1276Chip  <--EXTENDS--  Sx1276  <--EXTENDS--  RadioDaemon  --implements-->  StoreAndForward
                                                    ChipSelect   --implements-->  SpiTransfers
                                                    OtaUpdate    --implements-->  FirmwareUpgrade
                                                    WebServer    --implements-->  HttpSessions
    ConfigFile  <--EXTENDS--  RadioSetup
    ServiceLifecycle

The modules meet where one stands for another in a single step: a `Transfer` of
`Sx1276` is a call of `transfer()`, which `ChipSelect` takes apart and
`SpiTransfers` promises; its `SetModem` is the byte-by-byte set-up of `RadioSetup`;
the upload of `WebServer` is `OtaUpdate`, and its look at the radio is a turn of
`RadioDaemon`, as web.tick() is the step at `"tick"` there.

**`Sx1276Chip`** is the transceiver as the driver uses it: mode, interrupt flags
(written with one to clear), DIO0 mapping, FIFO with its pointer, and the
registers about the last frame. Frames are numbered in the order they are heard.
A FIFO of `Slots` frames stands for the 256-byte ring: one slot for frames that
fill it, two for frames of half its size. `Hear` and `FinishTx` are the chip's
own steps. A frame is good or has a CRC error, and is empty or not; an empty
explicit-header frame raises RxDone and leaves the FIFO as it is. All of this is
external to the repository. The history variables `heard`, `aired`
and `since` serve the properties: no step of the code depends on them, save that
whether a frame is empty is looked up in `heard` by its number.

**`Sx1276`** is the driver class. `step` is the next SPI transfer of the running
call; `Write(l, n, effect)` performs the transfer at `l` and goes on at `n`, or
fails with the effect done; `TransferLost` fails with nothing done. Steps are
named after the call: `b_` for `begin_lora`, `r_` for `rx_continuous`, `p_` for
`receive_packet`, `t_` for `transmit_packet`. The register writes between
`read_version` and `standby` in `begin_lora` are one step, `b_modem`: they leave
the chip in sleep mode, so nothing can happen between them (`WritesAsleep`), and they differ only
in values which no property here tells apart; `RadioSetup` does.

**`RadioDaemon`** is `main()` from the reset of the radio on. `pc` is the driver
call being made or the place in the loop. `Confs` is the set of configurations
and command lines: the reset pin, the DIO0 pin, repeating, `--probe`,
`--tx-hex`. `Start` may follow any end or crash. `"tick"` is the place
where `web.tick()` runs.

**`StoreAndForward`** is what a repeater promises, in terms of two sequences,
the packets owed and the packets sent.

**`OtaUpdate`** is `handle_ota_upload` with `write_ota_body`,
`run_sysupgrade_test` and `start_sysupgrade_flash`, one action per system call
that matters, with the client, both children and restarts of the daemon around
it. An image is written in `MaxSize` chunks at most; `file` is the one path
`ota_image_path` with the number of chunks still missing. A child holds the
listening socket it inherited, so `PortIsFree` guards `Start`. This assumes that `web_bind` and
`web_port`, which each start reads again, are not edited while a child lives: with another port nothing would
keep the next process from the image. A signal does not stop the tick it comes in (`Arrive`). A reboot empties
`/tmp`, where the default `ota_image_path` is.

**`FirmwareUpgrade`** is what an upgrade promises: the firmware changes only to
an image that was valid when it was accepted, one at a time.

**`ServiceLifecycle`** is several processes of `main()`, the init script and a
person at a shell. `at[p]` is the part of `main()` a process is in: `exec` up to
the `signal` calls (before them SIGTERM kills it), `bind` before `web.start`, `open`
up to the loop, `loop` at `while (g_running)`, `turn` inside it. `script` is the place in
the init script and `pidfile` what its pid file says. `start-stop-daemon` is external:
`-K` signals the process the file names, `-S` does nothing while that process lives, and the
file survives its process. A pid that the file names is not reused by
a process started by hand. All processes are assumed to listen at the same address and port, if they
listen at all. The script runs once at a time: two calls of it that overlap are not modelled. `held` says that a `sysupgrade` child has the socket.
It is a module beside `RadioDaemon`, not composed with it: `RadioDaemon` has
one process at a time, and `AloneOnRadio` is the condition under which that is so.

**`ChipSelect`** is the wiring under the driver, one action per sysfs write, ioctl
or SPI message: `open_pin` and the pins of `main()`, `open_device`,
`hardware_reset`, the three steps of `transfer()`, the end of the process at any of
them, and `sx1276-regversion` beside it. `frame` is what the chip sees between two
edges of NSS: bytes that follow a message in the same frame are data to it. `mode`
is the spidev's, which no process takes back. A configuration is the set of
pins that are not -1. The one result that the driver ignores is the acknowledgement
of a bad frame (`sx1276.cpp:189`), after which NSS may be low in the next call: `excuse`
remembers that, and `ReadyAtCall` is the statement with this exception. Of reset it speaks only for a
process that has the RESET pin.

**`SpiTransfers`** is what the driver takes `transfer()` for: one command, executed at
most once and within the call.

**`WebServer`** is the rest of `web_server.cpp` in `main()`: from the opening of the socket
(`Start`), with clients that queue while pins and radio are set up (`Setup`), to the end, which an error of the
set-up or of a turn (`Radio`, for `main.cpp:232-286`) brings as well as a signal. It has the accept
queue, `tick()` with its bound, headers that arrive in pieces, their end and their
limit, the routes, the token, and the answer in two writes. Clients connect, send,
stall, shut down and vanish at any point. Sizes are counted, time is not: a blocking
call returns with data, or with the end of its timeout. What a page says is not
modelled, only which of the answers it is. The histories `reads` and `late` count `recv` calls for
headers since the last look at the radio, and clients accepted after a signal.

**`HttpSessions`** is what the server promises: clients in the order of their
connections, one at a time, answered once at most.

**`ConfigFile`** is `load_config_file`, line by line. A line is what the parser
tells apart: whether it is one, its key, the word of its value, whether that is in
quotes and whether a `#` cuts it. `Stored` narrows a number as the casts do. A
read error is the end of the file to `getline`, so `EndOfFile` may come at any line.
The file may be edited between two starts.

**`RadioSetup`** goes on from there: `set_frequency`, `set_modem_config`,
`set_tx_power` and the rest of `begin_lora` as writes of single registers, with the
byte each one gets, any of which may fail or be the last. The chip keeps registers and mode for
the next process, which may have another file, unless RESET is wired. `OnAirAsWritten`
reads the registers back as the data sheet does; `OnAirIsOneConfig` compares them with the Config that was last
written to its end (the history `tuned`).

The theorems about a module are in the module named after it with `Proofs`; those about the types
and the liveness of `RadioDaemon` are in `RadioDaemonTypes` and `RadioDaemonLiveness`, those about
`ConfigFile` in `RadioSetupProofs`. The modules named `MC...` give the constants values for TLC. Operators
marked "Mutant" stand next to the definition they damage; each is used to make
sure that a property can fail.

## What TLC checks

| Run | Configuration | What it shows |
|---|---|---|
| `radio` | `MCRadio.cfg`: 2 slots, 3 frames, 6 configurations, faults, restarts | `TypeOK`, `ServedStatsAreTrue`, `ConfiguredOnAir`, `DeliveredOnceInOrder`, `DeliveredIntact`, and `RepeatsFaithfully` (implements `StoreAndForward`) |
| `radio_live` | `MCRadioLive.cfg`: 1 slot, 2 frames, no hardware faults | `CanStep`, `EndsOnlyFor`, `WaitingFrameServed`, `StopObeyed`, `OwedIsSent` |
| `ota` | `MCOta.cfg`: 3 images, one of them invalid, 2 chunks | `CanStep`, `TypeOK`, `FlashesWhatWasTested`, `FlagMeansForked`, `AnswersAreTrue`, `RequestEnds`, and `UpgradesSafely` (implements `FirmwareUpgrade`) |
| `ota_busy` | `MCOtaBusy.cfg`: the same | `BusyIsTrue` is violated, see below |
| `service` | `MCService.cfg`: 3 processes, all with a web server, some started by hand, faults | `TypeOK`, `AloneOnRadio`, `ScriptCanStop` |
| `service_live` | `MCServiceLive.cfg`: 3 processes of the script, with and without a web server | `CanStep`, `StopObeyed`, `QuickRestartServes` |
| `service_restart` | `MCServiceRestart.cfg`: the same, all with a web server | `RestartServes` is violated, see below |
| `chip_select` | `MCChipSelect.cfg`: every set of pins, every fault, the probe tool | `TypeOK`, `ReadyAtCall` |
| `spi_transfers` | `MCTransfers.cfg`: RESET configured, failing writes and ioctls | `TransfersAreAtomic` (implements `SpiTransfers`) |
| `web_clients` | `MCWeb.cfg`: 2 clients, 9 requests with headers below, at and above the limit and tokens in headers and query, 5 configurations | `TypeOK`, `AnswersFit`, `GateHolds`, `TurnBounded`, `StopsWithinTick`, and `ServesInOrder` (implements `HttpSessions`) |
| `web_live` | `MCWebLive.cfg`: 2 clients that stall or come back for ever | `CanStep`, `RadioTurns`, `QueuedIsServed` |
| `radio_setup` | `MCRadioSetup.cfg`: 14 files with lines of every kind, 3 processes | `SetupTypeOK` (with `TypeOK` of `ConfigFile`), `RunsAsWritten`, `OnAirAsWritten`, `OnAirIsOneConfig` |

**Bounds.** `MaxFrames` bounds the frames heard in a whole behaviour, restarts
included. Three are needed: without the DIO0 pin a bad frame can reach `main()`
only when one frame is being read, a second completes behind it, and the
acknowledgement of the first clears the CRC flag of a third or the second.
With two slots one frame is overwritten while another is intact; with one,
each overwrites the one before. There is no bound on restarts, faults, signals
or crashes: `delivered` and the counters are bounded because each process
delivers a frame once. In `OtaUpdate` two chunks are enough for a truncated
image and for a `recv` that ends inside the body; three images let an upload
replace a valid one with a valid or an invalid one. There is no bound on
requests or restarts. In `ServiceLifecycle` three processes are enough for one on the
radio, one that wants it, and one that the script or a person starts meanwhile;
a dead process may be started again, and commands are not bounded. `AloneOnRadio` is checked where
all have a web server; that it also holds without, if the script starts them all, is left to its proof.

`ChipSelect` has no bounds. `MCTransfers` leaves out three things that the refinement does not hold
with: boards without RESET, where a process that died in a transfer
leaves a frame open until the next one has raised NSS; every fault of the raising of NSS, the one that
the driver ignores among them; and the probe tool, which shares the device. What happens with the
last two is checked by `MCChipSelect`, for `ReadyAtCall` only. In `WebServer` the limit of 16384 bytes is `Limit`
and the 512 bytes of a `recv` are `Buffer`: with 2 and 2 there are headers whose end comes
before, in and behind the read that passes the limit, and larger numbers add only reads. `PerTick` is 1 or 2, for 4: with two
clients, a tick ends with a client waiting and with none, as clients come back. The files of
`MCRadioSetup` set keys of each type, once or again, with and without quotes, and end
in a bad line or in none; a read error may cut each anywhere, so that every prefix is a
file as well. `Half` is 2^19 for 2^31, so that numbers too large for an int stay within
TLC's. In `RadioSetup` the history of the chip is its registers, and three processes
are a first, one that leaves its own registers half written, and one that finds them;
`FrequencyAssumption` keeps frequencies below 2^45 Hz, where the shift of
`set_frequency` overflows its 64 bits. Carriers above 1.024 GHz are compared modulo that, as the register
counts, and nothing is asked of a number of the file that does not fit into its field:
that such values are accepted without a word is a hazard, which no property catches.

`TurnBounded` bounds the `recv` calls for headers, each of which may take the 15 s of `SO_RCVTIMEO`:
at most `PerTick * Limit` between two looks at the radio. The body of an upload and the sending of an
answer are not counted; that they end is `RequestEnds` and `RadioTurns`. That this is a
time the radio can wait is not claimed.

**Frames that mix.** `DeliveredIntact` is about packets during whose reading no
other frame completed (`rcv.clean`). When one does, the driver can return the
length of one frame with the bytes of another: TLC shows it at once
when the condition is dropped. The chip gives no way to notice, and
nothing in the repository claims otherwise, so this is recorded as a hazard and
as the condition of the property. Without the pin a bad frame may also be handed
on, which is why the last conjunct asks for `conf.dio0`.

**Fairness.** `radio_live` assumes that the process keeps executing and that the
clock reaches `transmit_packet`'s deadline, nothing about the chip, the air or
signals. So `StopObeyed` holds although a transmission may never end: the
deadline ends it. `ota` assumes that the daemon executes, that
`SO_RCVTIMEO` fires (line 310 of `web_server.cpp`), and that `sysupgrade -T`
ends, which the code does not enforce: `command_output_from_pipe` reads
without a limit.
`Faults = FALSE` switches off failing transfers and crashes in `radio_live`: with them the
process may always end, and `EndsOnlyFor` would have nothing to say. `service_live` assumes that
every process and the script keep executing and that `sysupgrade` ends; nothing is
assumed of who types commands. That a turn ends (`Turn` is fair) is the theorem `TurnsEnd` for the radio, `RadioTurns`
of `web_live` for clients and `RequestEnds` of `ota` for OTA requests.
Where fairness lets a step happen is `CanStep`: in `radio_live`, `ota` and `web_live` the daemon's thread
has a step in every state but those where it waits for the clock or for `sysupgrade -T`; in
`service_live` so does every process, and the script whenever a process is left to start.
`web_live` assumes that the daemon's thread executes (`Main \/ Serve`) and nothing of the
clients: each `recv` and `send` ends because both socket timeouts are set
(`web_server.cpp:308-312`), and an upload ends by `RequestEnds`. A `recv` that a signal
interrupts is repeated; that is not counted as a step. `QueuedIsServed` would not
follow from `PerTick` alone: it rests on the queue being served from its head.

**Findings.** `BusyIsTrue` says that "OTA already in progress"
(`web_server.cpp:428`) is answered only while an upgrade is in progress. It is
not so: after a 202 the flag is never lowered and nobody waits for the child, so
once `sysupgrade` has failed the endpoint refuses every upload until the daemon
is restarted. `FlagMeansForked` says what the flag does mean.

`RestartServes` says that a restart leaves a daemon that serves, which is what
`docs/firmware-replacement.md:100` uses it for. `restart` is `stop; sleep 1; start`,
and a turn may last longer than that: 5 s for a transmission, 15 s for each silent web
client. The pid file then still names a live process, `start` does nothing, and
the old process ends afterwards. Time is not modelled, so the premise of the property
leaves out what a second is certainly enough for: it asks only about old
processes that are inside a turn, or gone. `QuickRestartServes` is the
part of the claim that does hold: no process lives and the port is free when the sleep ends.

## What TLAPS proves

| Theorem | Module | Statement |
|---|---|---|
| `TypeCorrect` | `RadioDaemonTypes` | `Spec => []TypeOK` |
| `ConfiguredCorrect` | `RadioDaemonProofs` | `Spec => []ConfiguredOnAir` |
| `StatsCorrect` | `RadioDaemonProofs` | `Spec => []ServedStatsAreTrue` |
| `RepeaterRefinement` | `RadioDaemonProofs` | `Spec => RepeatsFaithfully` |
| `EndsCorrect` | `RadioDaemonProofs` | `Spec => EndsOnlyFor` |
| `TypeCorrect` | `OtaUpdateProofs` | `Spec => []TypeOK` |
| `FlagCorrect` | `OtaUpdateProofs` | `Spec => []FlagMeansForked` |
| `FlashSafe` | `OtaUpdateProofs` | `Spec => []FlashesWhatWasTested` |
| `UpgradeRefinement` | `OtaUpdateProofs` | `Spec => UpgradesSafely` |
| `AnswersCorrect` | `OtaUpdateProofs` | `Spec => AnswersAreTrue` |
| `DeliveredCorrect` | `RadioDaemonProofs` | `Spec => []DeliveredOnceInOrder` |
| `IntactCorrect` | `RadioDaemonProofs` | `Spec => []DeliveredIntact` |
| `TypeCorrect` | `ServiceLifecycleProofs` | `Spec => []TypeOK` |
| `AloneCorrect` | `ServiceLifecycleProofs` | `Spec => []AloneOnRadio` |
| `StopReaches` | `ServiceLifecycleProofs` | `Spec => []ScriptCanStop` |
| `TypeCorrect` | `ChipSelectProofs` | `Spec => []TypeOK` |
| `ReadyCorrect` | `ChipSelectProofs` | `Spec => []ReadyAtCall` |
| `TransferRefinement` | `ChipSelectProofs` | `Undisturbed => (Spec => TransfersAreAtomic)`, see below |
| `TypeCorrect` | `WebServerProofs` | `Spec => []TypeOK` |
| `TurnCorrect` | `WebServerProofs` | `Spec => []TurnBounded` |
| `AnswersCorrect` | `WebServerProofs` | `Spec => []AnswersFit` |
| `GateCorrect` | `WebServerProofs` | `Spec => []GateHolds` |
| `SessionRefinement` | `WebServerProofs` | `Spec => ServesInOrder` |
| `StopsCorrect` | `WebServerProofs` | `Spec => []StopsWithinTick` |
| `ConfigTypes` | `RadioSetupProofs` | `Spec => []TypeOK` |
| `ConfigCorrect` | `RadioSetupProofs` | `Spec => []RunsAsWritten` |
| `FrfExact` | `RadioSetupProofs` | `Frf(f)` is `(f * 2^19) \div 32000000` for every `f` |
| `SetupTypes` | `RadioSetupProofs` | `SetupSpec => []SetupTypeOK` |
| `OnAirCorrect` | `RadioSetupProofs` | `SetupSpec => []OnAirAsWritten` |
| `OneConfigCorrect` | `RadioSetupProofs` | `SetupSpec => []OnAirIsOneConfig` |
| `SetupLoads` | `RadioSetupProofs` | `SetupSpec => Spec` (of `ConfigFile`) |
| `SetupConfigCorrect` | `RadioSetupProofs` | `SetupSpec => []RunsAsWritten` |
| `WritesAsleep` | `RadioSetupProofs` | `SetupSpec => [][regs' # regs => regs' = PowerOn \/ (mode = "SLEEP" /\ mode' = "SLEEP")]_vars` |
| `TurnsEnd` | `RadioDaemonLiveness` | `FairSpec /\ []GuardsEnable => (pc # "down" ~> pc \in {"down", "loop"})` |
| `StopCorrect` | `RadioDaemonLiveness` | `FairSpec /\ []GuardsEnable => StopObeyed` |
| `OwedCorrect` | `RadioDaemonLiveness` | `FairSpec /\ []GuardsEnable => OwedIsSent` |
| `WaitingCorrect` | `RadioDaemonLiveness` | `~Faults => (FairSpec /\ []GuardsEnable => WaitingFrameServed)` |
| `StopCorrect` | `ServiceLifecycleProofs` | `FairSpec /\ []GuardsEnable => StopObeyed` |
| `QuickRestartCorrect` | `ServiceLifecycleProofs` | `~ByHand /\ ~Faults => (FairSpec /\ []GuardsEnable => QuickRestartServes)` |
| `RequestCorrect` | `OtaUpdateProofs` | `FairSpec /\ []GuardsEnable /\ InductionOnLeft => RequestEnds` |
| `TurnsCorrect` | `WebServerProofs` | `FairSpec /\ []GuardsEnable /\ InductionOnAhead => RadioTurns` |
| `QueueCorrect` | `WebServerProofs` | `FairSpec /\ []GuardsEnable /\ (\A c : InductionOnDue(c)) => QueuedIsServed` |
| `CanStepCorrect` | `RadioDaemonLiveness`, `OtaUpdateProofs`, `ServiceLifecycleProofs`, `WebServerProofs` | `Spec /\ []GuardsEnable => []CanStep` |
| `NeverBlocked` | `OtaUpdateProofs` | `Spec => [](Busy /\ ~(at = "wait" /\ tester = "running") => HandlerReady)` |
| `NeverBlocked` | `WebServerProofs` | `Spec => [](at # "ended" => MainReady \/ ServeReady)` |
| `CallsBounded` | `WebServerProofs` | `Spec => []CallsAhead /\ [][CallsFall]_vars` |
| `FlagNeverFalls` | `OtaUpdateProofs` | `Spec => FlagStays` |
| `NeverAmplifies` | `RadioDaemonProofs` | `Spec => []NoAmplification` |

They hold for every number of slots and frames, every set of configurations,
images, sizes, processes, clients, requests, pins and files, from the assumptions `ChipAssumption`, `FaultsAssumption`,
`ConfsAssumption`, `OtaAssumption`, `LifecycleAssumption`, `ChipSelectAssumption`,
`WebAssumption`, `ConfigAssumption`, `RunsAssumption` and `FrequencyAssumption`, which say what
kind of value each constant is and which every run evaluates.

*The radio.* None of the properties is inductive: each needs to know what the
calls made so far have done to the chip. `IInv` adds to the types, for
every place of the program: which call can be running (`Place`); that the modem
registers are this process's from `b_stdby` on and that before it nothing
can be on the air (`Configured`); which part of `rx_continuous` has taken effect
(`Listening`); what is counted where (`Counted`); and, transfer by transfer of
`transmit_packet`, that the FIFO's first slot and the length register hold the
packet owed and not yet sent (`Sending`). The first conjunct of `Sending`
also speaks of a dead process, whose last packet the chip may still
finish. Each part is preserved by the driver (one lemma per part, one step
per call), by `main()`, and by the chip. The refinement maps the packets owed
and sent to nothing before a process has taken the chip; `Accept` is main()'s
hand-over to `transmit_packet` and `Transmit` is the chip's `FinishTx`, where
`Sending` says that what goes out is what is owed.

*Delivery.* `DInv` follows a frame from `Hear` to `main()`. `Pending` is about a frame that
waits: if RxDone is up, it is about the last frame heard, which is newer than
everything delivered (`Fresh`) and whose bytes are in the slot that the chip names
(`Holds`). It is needed wherever the next frame is waited for, and it is what
`rx_continuous` establishes by clearing all flags before it enters receive mode.
`Reading` says, read by read of `receive_packet`, that length and bytes are of frames
that were not delivered, though perhaps of two of them; `Whole` says that they are of one, as long as no
frame has come since the flags were read (`mark = Len(heard)`). The hard step is `Hear` between
any two reads: it may overwrite the slot being read, with bytes that are newer still
(`Filled`), and it leaves the acknowledgement to come to clear its RxDone, which is
why a packet just read is older than a frame pending behind it. With the DIO0 pin the flags are
read only when RxDone is up, so that a CRC flag is never cleared without its RxDone.

*Balance.* `NoAmplification` bounds what a daemon sends by what it hears, which no run checks and
which follows from two results above. `Paced` says that no more packets were delivered than frames came between
the taking of the chip and the last one delivered: each delivery is newer than all before it (`Fresh`).
That what was sent is the beginning of `Owed`, with at most one packet missing,
is an invariant of the abstract `StoreAndForward` (`RepeaterPrefix`) and comes down through the refinement.

*The upgrade.* `IInv` says that the handler is past its guard only while no
flashing child lives, and what the file holds at each step; the port keeps a
new process out while a child lives, which is why `FlashesWhatWasTested` survives
restarts. `FlagNeverFalls` is about the finding of `ota_busy`: the flag that is up when a
request has ended is lowered by no step of this process, so the 409 lasts as long as the
process does.

*The service.* `AloneOnRadio` holds for one of two reasons. If all processes have a
web server, each holds the port as long as it uses the radio, and that is inductive by
itself. If all are started by the script, it follows from `ScriptCanStop`: two
processes that live would both be the one the pid file names. The invariant joins
the two with `ByScriptOnly`, and each step is reduced to a lemma about one process
changing its place. With daemons started by hand and `web_enabled=0` neither reason is
left, and nothing keeps two processes apart.

*The wires.* `Undisturbed` is what the refinement assumes of the constants: RESET is in every
configuration, NSS can be raised, no probe tool. The invariant says for each step of
`transfer()` whether a frame is open and what of it is used, and carries `ReadyAtCall` from the
end of one call to the start of the next.

*The web server.* The invariant joins the types with the place: how many `recv` calls
this tick has made, by clients served before and bytes read since; who is at the head
of `waiting`; and that an answer is given only to the one being served. `LateServed` bounds the clients
accepted after a signal by those the tick has served, which is `PerTick` at the end of it.

*The configuration.* `RunsAsWritten` is inductive once it speaks of every line read so far and
not only of the end. The radio's invariant adds, register by register in `Order`, that those
already written hold the bytes of this process's Config, that none is written
outside sleep mode, that the Config of a daemon on the air is the one in `tuned`, and that the chip, whoever
left it on the air, has every register as `tuned` says. `FrfExact` ties the frequency word, which the model
computes without the 64-bit shift, to the formula in the source. `SetupLoads` carries what is proved of
`ConfigFile` over to the daemon with its radio, and `WritesAsleep` is why `Sx1276` need not
tell the writes of `begin_lora` apart.

*Liveness.* What a run shows of liveness for a few frames, chunks or clients is proved here
for all, with weak fairness used as it is stated and a variant for each wait. The prover
cannot evaluate `ENABLED`. What that leaves out is kept as small as it can be: `GuardsEnable` says that an action whose
guard holds can be taken, the guards written out as `MainReady`, `DriverReady`, `HandlerReady`, `ScriptReady`
and `ServeReady`; it is true because the rest of each action only gives the variables
their next values. That some guard does hold wherever fairness needs one, that the daemon waits for
no more than its timeouts, its clock or the end of a child, is proved, from the invariants
(`NeverBlocked`, `CanStepCorrect`). For the radio and the service that is little more than their types: at every
place there is an action for each result. For the other two it takes an invariant: a handler
waits only for a child it has forked, and the server reads no further than a client has sent (`Sent`). TLC
checks `CanStep` with the real `ENABLED` on the small instances, and each mutant of it is a call that blocks.
For the radio, the upload and the web server `GuardsEnable` and `CanStep` are the same in every reachable
state; for the service it says besides that the script can go on, too, while every process of the model lives.

The radio: `Togo` counts the transfers that a call of the driver has to go and `Ahead` the calls
to the head of the loop; both are small numbers, so that the proof is a chain of as many steps. The poll for
TxDone is the one wait: `Clock` ends it, as the deadline does in the code, whatever the chip does.
So every call returns (`CallReturns`) and every turn comes round (`TurnsEnd`), with
hardware faults as without: a fault ends the call early. `WaitingCorrect` needs `~Faults`
because the acknowledgement of a bad frame whose failure is ignored leaves its RxDone up
and the frame waiting.

The service: a process told to stop goes through the rest of `main()` at most; the fairness of each
process becomes that of all by exchanging quantifier and `[]`. In a
quick restart no process lives, and the script starts one, which
nothing but its end or another call of the script keeps from serving.

An upload, a tick and the place in the queue have variants without a bound: the bytes left
(`left`), the calls to the radio (clients still to be served, times `Round`, a number that is more than one client
takes, plus what is `Rest` of this one) and the same of a client with its place in the
queue. A formula about the future follows by induction on the natural numbers, which the provers
cannot apply to such a formula: `NatInduction` takes an operator as a parameter. Base and step
are proved, and the one instance of the principle that joins them is a hypothesis, written out:
`InductionOnLeft`, `InductionOnAhead`, `InductionOnDue(c)`. Each says no more than "if it holds
of 0, and of n + 1 when it holds of n, then it holds of all n", and is true in every behaviour.

Of the clients, `CallsBounded` says without fairness and without induction what matters to the radio:
the variant starts at `PerTick * Round + Round` at most, each call of the thread lowers it, and no client
raises it.

Every property and every refinement that a passing run checks is stated by a theorem. What stays with
TLC is what the hypotheses say: the meaning of `ENABLED` (`GuardsEnable`, by way of `CanStep`) and
the instances of induction that three liveness theorems need. That the two findings' properties are
violated is shown by TLC only.

## Not modelled

The layout of pages and JSON, with `json_escape`, `html_escape` and the readers of `/proc`
(`web_server.cpp:47-143`, `652-750`); the scaling of RSSI and SNR, which are only
shown; `usage()` and the log; how
`parse_hex` reads the digits of `--tx-hex` and `to_hex` shows them, a computation on characters,
of which `RadioDaemon` keeps only whether the payload fits; `hal_random_bytes`, which nothing calls. How characters make
words of a line of the configuration: a `#` inside quotes, which takes the closing one with it and leaves
the opening one in the text, is in the model, the splitting itself is not; double quotes, which are treated as single
ones are. What the chip does with
`spreading_factor 6`, which the driver accepts and writes with explicit headers (`sx1276.cpp:356`) although the
data sheet asks for implicit ones. What two daemons at a time
would do to the chip (`ServiceLifecycle` says when there can be two); reboots, and
`start` at boot, in `ServiceLifecycle`. What of an answer reaches a client after
`close()`, which is the kernel's doing. Several repeaters in range of each other:
that two of them repeat each other's frames for ever follows from `repeat_raw`
itself, which `README.md:146` says to leave off, and nothing claims otherwise.
The build scripts and board profiles have no run-time state.

## Plan

1. *Done:* chip, driver, daemon, `StoreAndForward`, types, safety, delivery, balance and liveness proofs.
2. *Done:* `OtaUpdate`, `FirmwareUpgrade`, safety (with the flag that stays) and liveness proofs.
3. *Done:* `ChipSelect`, `SpiTransfers`, the refinement proved.
4. *Done:* `ServiceLifecycle`, mutual exclusion on the radio, safety and liveness proofs.
5. *Done:* `WebServer`, `HttpSessions`, the refinement, the bound on calls and liveness proved.
6. *Done:* `ConfigFile`, `RadioSetup`, both proved.
7. Left: the driver's `Transfer` as a call of `SpiTransfers`, step by step; uploads of `WebServer`
   as requests of `OtaUpdate`; several processes of `ServiceLifecycle` on one chip.
