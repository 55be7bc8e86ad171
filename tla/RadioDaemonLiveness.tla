------------------------ MODULE RadioDaemonLiveness ------------------------
(***************************************************************************)
(* Liveness of RadioDaemon: every call of the driver returns, every turn   *)
(* of main() comes round, and therefore a stop is obeyed, what is owed is  *)
(* sent and a waiting frame is served.                                     *)
(*                                                                         *)
(* The argument is a variant, twice: the transfers a call has to go, and   *)
(* the calls main() has to go to the head of its loop.  The one place      *)
(* where a call waits is the poll for TxDone, and there the clock helps.   *)
(* Fairness applies wherever a guard holds: CanStep, which radio_live      *)
(* checks, too.                                                            *)
(***************************************************************************)
EXTENDS RadioDaemonProofs

\* The transfers a call has to go at most, the polls for TxDone counted as one.
Togo == [s \in Steps |->
  CASE s = "ret" -> 0
    [] s \in {"reset", "version", "b_stdby", "r_mode", "p_crc", "p_clear"} -> 1
    [] s \in {"b_modem", "r_ptr", "p_fifo"} -> 2
    [] s \in {"b_version", "r_clear", "p_ptr"} -> 3
    [] s \in {"b_sleep", "r_dio", "p_rssi"} -> 4
    [] s \in {"r_stdby", "p_snr"} -> 5
    [] s \in {"p_len", "t_ack"} -> 6
    [] s \in {"t_wait", "t_poll"} -> 7
    [] s \in {"p_addr", "t_mode"} -> 8
    [] s \in {"p_irq", "t_len"} -> 9
    [] s = "t_fifo" -> 10
    [] s = "t_ptr" -> 11
    [] s = "t_clear" -> 12
    [] s = "t_dio" -> 13
    [] s = "t_stdby" -> 14
    [] s = "t_size" -> 15]

Down == pc = "down"
Within(k) == ~Down /\ Togo[step] <= k
Polls == ~Down /\ step \in {"t_wait", "t_poll"}

LEMMA TogoRange == \A s \in Steps : Togo[s] \in 0 .. 15 /\ (Togo[s] = 0 <=> s = "ret")
<1> SUFFICES ASSUME NEW s \in Steps
             PROVE  Togo[s] \in 0 .. 15 /\ (Togo[s] = 0 <=> s = "ret")
  OBVIOUS
<1>1. Togo[s] \in 0 .. 15
  BY SMTT(60) DEF Togo, Steps
<1>2. Togo["ret"] = 0 /\ (s # "ret" => Togo[s] # 0)
  BY SMTT(60) DEF Togo, Steps
<1> QED
  BY <1>1, <1>2

LEMMA StepType == IInv => step \in Steps
  BY DEF IInv, TypeOK, DriverTypeOK

\* A transfer brings its call nearer to its return, or it is a poll.
LEMMA TransferNearer ==
  ASSUME step \in Steps, Driver, step \notin {"t_wait", "t_poll"}
  PROVE  step' \in Steps /\ Togo[step'] < Togo[step]
<1> USE DEF Togo, Steps
<1>1. CASE HardwareReset \/ ReadVersion \/ BeginLora
  BY <1>1 DEF HardwareReset, ReadVersion, BeginLora, Write, Transfer, Goto, Fail
<1>2. CASE RxContinuous
  BY <1>2 DEF RxContinuous, Write, Transfer, Goto, Fail
<1>3. CASE ReceivePacket
  BY <1>3 DEF ReceivePacket, ReadFlags, DropBadFrame, ReadPacket, ReadPayload, AckPacket,
     Read, Write, Transfer, Goto, Fail
<1>4. CASE TransmitPacket
  BY <1>4 DEF TransmitPacket, CheckSize, LoadPacket, CheckDeadline, PollTxDone, AckTxDone,
     Write, Transfer, Goto, Fail
<1>5. CASE TransferLost
  BY <1>5 DEF TransferLost
<1> QED
  BY <1>1, <1>2, <1>3, <1>4, <1>5 DEF Driver

\* Every other step leaves the running call where it is, or ends the process.
LEMMA OtherSteps ==
  ASSUME [Next]_vars, ~System, ~Down
  PROVE  Down' \/ (UNCHANGED <<pc, conf, step, ok, seen>> /\ (running' => running))
<1>1. HandleSignal \/ Crash \/ ChipStep \/ Clock \/ UNCHANGED vars
  BY DEF Next, Start, Down
<1> QED
  BY <1>1 DEF HandleSignal, Crash, ChipStep, Clock, DeadlinePasses, Down, vars, main, driver, locals

LEMMA SystemRunning == System => running' = running
  BY DEF System, Main, AfterReset, AfterVersion, AfterBegin, AfterTxHex, AfterListen, LoopHead,
     CheckRadio, DioReadFails, AfterReceive, AfterRepeat, CallFailed, DriverStep, main

\* A call keeps its place until it has returned.
LEMMA CallSteps ==
  ASSUME IInv, ~Down, step # "ret", System
  PROVE  DriverStep /\ UNCHANGED main /\ ~Down'
<1>1. ~Main
  BY DEF IInv, Place, Main, AfterReset, AfterVersion, AfterBegin, AfterTxHex, AfterListen, LoopHead,
     CheckRadio, DioReadFails, AfterReceive, AfterRepeat, CallFailed, Returned
<1> QED
  BY <1>1 DEF System, DriverStep, main, Down

\* The loop of transmit_packet ends when its deadline has passed.
LEMMA PollSteps ==
  ASSUME Polls, DriverStep
  PROVE  /\ step' \in {"t_poll", "t_wait", "t_ack", "ret"}
         /\ expired /\ step = "t_wait" => step' = "ret"
         /\ step = "t_poll" => step' # "t_poll"
         /\ expired' = expired
<1>1. CheckDeadline \/ PollTxDone \/ TransferLost
  BY DEF Polls, DriverStep, Driver, HardwareReset, ReadVersion, BeginLora, RxContinuous,
     ReceivePacket, ReadFlags, DropBadFrame, ReadPacket, ReadPayload, AckPacket, TransmitPacket,
     CheckSize, LoadPacket, AckTxDone, Read, Write, Transfer
<1> QED
  BY <1>1 DEF Polls, CheckDeadline, PollTxDone, TransferLost, Goto, Fail, locals

\* Polling goes on, or it is over; and a deadline stays passed.
LEMMA Polling ==
  ASSUME IInv, Polls, [Next]_vars
  PROVE  /\ Polls' \/ Within(6)' \/ Down'
         /\ expired => expired' \/ Down'
         /\ System /\ expired /\ step = "t_wait" => Within(6)'
         /\ System /\ step = "t_poll" => (step = "t_wait")' \/ Within(6)'
         /\ ~System => step' = step \/ Down'
<1>1. CASE System
  <2>1. DriverStep /\ ~Down'
    BY <1>1, CallSteps DEF Polls
  <2>2. /\ step' \in {"t_poll", "t_wait", "t_ack", "ret"} /\ expired' = expired
        /\ expired /\ step = "t_wait" => step' = "ret"
        /\ step = "t_poll" => step' # "t_poll"
    BY <2>1, PollSteps
  <2>3. Togo["t_ack"] = 6 /\ Togo["ret"] = 0
    BY DEF Togo, Steps
  <2>4. Within(6)' <=> ~Down' /\ Togo[step'] <= 6
    BY DEF Within
  <2>5. step' \in {"t_ack", "ret"} => Within(6)'
    BY <2>1, <2>3, <2>4
  <2> QED
    BY <1>1, <2>1, <2>2, <2>5 DEF Polls
<1>2. CASE ~System
  <2>1. step' = step \/ Down'
    BY <1>2, OtherSteps DEF Polls
  <2>2. step' = step /\ ~Down' => Polls'
    BY DEF Polls
  <2>3. expired => expired' \/ Down'
    BY <1>2 DEF Next, Start, Polls, Down, HandleSignal, Crash, ChipStep, Clock, DeadlinePasses, vars,
       driver, locals
  <2> QED
    BY <1>2, <2>1, <2>2, <2>3
<1> QED
  BY <1>1, <1>2

LEMMA Nearer ==
  ASSUME IInv, NEW k \in 1 .. 15
  PROVE  /\ Within(k) /\ ~Within(k - 1) /\ [Next]_vars => Within(k)' \/ Down'
         /\ Within(k) /\ ~Within(k - 1) /\ ~Polls /\ <<System>>_vars => Within(k - 1)'
<1>0. step \in Steps
  BY DEF IInv, TypeOK, DriverTypeOK
<1>1. Within(k) /\ ~Within(k - 1) => ~Down /\ step # "ret" /\ Togo[step] = k
  BY <1>0, TogoRange DEF Within
<1>2. ASSUME Within(k), ~Within(k - 1), System
      PROVE  Within(k)' /\ (~Polls => Within(k - 1)')
  <2>1. DriverStep /\ UNCHANGED main /\ ~Down'
    BY <1>1, <1>2, CallSteps
  <2>2. CASE ~Polls
    <3>1. step' \in Steps /\ Togo[step'] < Togo[step]
      BY <1>0, <1>1, <1>2, <2>1, <2>2, TransferNearer DEF DriverStep, Polls
    <3> QED
      BY <1>1, <1>2, <2>1, <3>1, TogoRange DEF Within
  <2>3. CASE Polls
    <3>1. step' \in {"t_poll", "t_wait", "t_ack", "ret"}
      BY <2>1, <2>3, PollSteps
    <3>2. Togo[step] = 7 /\ Togo[step'] \in 0 .. 7
      BY <2>3, <3>1 DEF Togo, Steps, Polls
    <3> QED
      BY <1>1, <1>2, <2>1, <2>3, <3>2 DEF Within
  <2> QED
    BY <2>2, <2>3
<1>3. ASSUME Within(k), [Next]_vars, ~System PROVE Within(k)' \/ Down'
  BY <1>3, OtherSteps DEF Within, Down
<1> QED
  BY <1>2, <1>3

-----------------------------------------------------------------------------
(* No call waits for the chip: wherever main() and the driver are, the     *)
(* guard of an action holds.                                               *)

\* main() goes on with a call that has returned, well or badly, or is between
\* two calls.
MainReady ==
  \/ pc \in {"reset", "version", "begin", "txhex", "listen", "receive", "repeat"} /\ step = "ret" /\ ok
  \/ pc \notin {"down", "loop", "tick"} /\ step = "ret" /\ ~ok
  \/ pc \in {"loop", "tick"}

\* Every other step names a transfer or a test that the driver makes at once.
DriverReady == pc # "down" /\ step \in Steps \ {"ret"}

\* What ENABLED says: an action whose guard holds can be taken, since the rest
\* of it only gives the variables their next values.
GuardsEnable ==
  /\ MainReady \/ DriverReady => ENABLED <<System>>_vars
  /\ pc # "down" /\ step \in {"t_wait", "t_poll"} /\ ~expired => ENABLED <<Clock>>_vars

\* CanStep, of which ENABLED is all that stays with TLC: a living process goes
\* on from every place of main() and of the driver, with every result.
THEOREM CanStepCorrect == Spec /\ []GuardsEnable => []CanStep
<1>1. IInv /\ pc # "down" => MainReady \/ DriverReady
  <2> SUFFICES ASSUME IInv, pc # "down", step = "ret" \/ step \notin Steps PROVE MainReady
    BY DEF DriverReady
  <2>1. step = "ret" /\ ok \in BOOLEAN /\ pc \in Sites
    BY StepType, MainParts DEF IInv, MainTypeOK, TypeOK, DriverTypeOK
  <2> QED
    BY <2>1 DEF MainReady, Sites
<1>2. IInv /\ GuardsEnable => CanStep
  BY <1>1 DEF GuardsEnable, CanStep
<1> QED
  BY <1>2, Invariance, PTL

\* What CanStep says of fairness, in the words of this module.
LEMMA Steppable ==
  CanStep => /\ ~Down => ENABLED <<System>>_vars
             /\ Polls /\ ~expired => ENABLED <<Clock>>_vars
  BY DEF CanStep, Down, Polls

Lives == FairSpec /\ []CanStep

LEMMA GuardsLive == FairSpec /\ []GuardsEnable => Lives
  BY CanStepCorrect, PTL DEF Lives, FairSpec

Shrinks(k, j) == Within(k) ~> (Within(j) \/ Down)

LEMMA TransfersEnd ==
  ASSUME NEW k \in (1 .. 15) \ {7}, NEW j \in Nat, j = k - 1
  PROVE  Lives => Shrinks(k, j)
<1>1. IInv /\ Within(k) /\ ~Within(j) /\ [Next]_vars => Within(k)' \/ Down'
  BY Nearer
<1>2. IInv /\ Within(k) /\ ~Within(j) /\ ~Polls /\ <<System>>_vars => Within(j)'
  BY Nearer
<1>3. Within(k) /\ ~Within(j) => ~Polls /\ ~Down
  BY DEF Within, Polls, Togo, Steps
<1> QED
  BY <1>1, <1>2, <1>3, Steppable, Invariance, PTL DEF Lives, Shrinks, FairSpec, Fairness, Spec

\* Polling ends: with TxDone, or with the deadline.
LEMMA PollingEnds == Lives => Shrinks(7, 6)
<1>1. IInv /\ Within(7) /\ ~Within(6) => Polls
  BY StepType, TogoRange DEF Within, Polls, Togo, Steps
<1>2. IInv /\ Polls /\ [Next]_vars => Polls' \/ Within(6)' \/ Down'
  BY Polling
<1>3. IInv /\ Polls /\ expired /\ [Next]_vars => expired' \/ Down'
  BY Polling
<1>4. Polls /\ <<Clock>>_vars => expired'
  BY DEF Clock, DeadlinePasses
<1>5. IInv /\ Polls /\ expired /\ step = "t_wait" /\ <<System>>_vars => Within(6)'
  BY Polling DEF Next
<1>6. IInv /\ Polls /\ step = "t_poll" /\ <<System>>_vars => (step = "t_wait")' \/ Within(6)'
  BY Polling DEF Next
<1>7. IInv /\ Polls /\ step = "t_wait" /\ [Next]_vars => (step = "t_wait")' \/ <<System>>_vars \/ Down'
  BY Polling DEF vars, driver
<1>8. Polls => step = "t_wait" \/ step = "t_poll"
  BY DEF Polls
<1>9. Polls => ~Down
  BY DEF Polls
<1> QED
  BY <1>1, <1>2, <1>3, <1>4, <1>5, <1>6, <1>7, <1>8, <1>9, Steppable, Invariance, PTL
     DEF Lives, Shrinks, FairSpec, Fairness, Spec

LEMMA CallReturns == Lives => (~Down ~> (Down \/ step = "ret"))
<1>1. Lives => /\ Shrinks(15, 14) /\ Shrinks(14, 13) /\ Shrinks(13, 12) /\ Shrinks(12, 11)
               /\ Shrinks(11, 10) /\ Shrinks(10, 9) /\ Shrinks(9, 8) /\ Shrinks(8, 7)
  BY TransfersEnd, SMT
<1>2. Lives => Shrinks(7, 6)
  BY PollingEnds
<1>3. Lives => /\ Shrinks(6, 5) /\ Shrinks(5, 4) /\ Shrinks(4, 3) /\ Shrinks(3, 2)
               /\ Shrinks(2, 1) /\ Shrinks(1, 0)
  BY TransfersEnd, SMT
<1>4. IInv /\ ~Down => Within(15)
  BY StepType, TogoRange DEF Within
<1>5. IInv /\ Within(0) => step = "ret"
  BY StepType, TogoRange DEF Within
<1> QED
  BY <1>1, <1>2, <1>3, <1>4, <1>5, Invariance, PTL DEF Lives, FairSpec, Shrinks
-----------------------------------------------------------------------------
(* The turns of main().                                                    *)

\* The calls main() has to go at most to the head of its loop.
Ahead == [s \in Sites |->
  CASE s \in {"loop", "down"} -> 0
    [] s \in {"listen", "repeat"} -> 1
    [] s \in {"txhex", "receive"} -> 2
    [] s \in {"begin", "tick"} -> 3
    [] s = "version" -> 4
    [] s = "reset" -> 5]

Near(k) == ~Down /\ Ahead[pc] <= k
Approaches(k, j) == Near(k) ~> (Near(j) \/ Down)

\* What main() does with a call that has returned.
LEMMA ReturnsToMain == step = "ret" /\ System => Main
  BY DEF System, DriverStep, Driver, HardwareReset, ReadVersion, BeginLora, RxContinuous, ReceivePacket,
     ReadFlags, DropBadFrame, ReadPacket, ReadPayload, AckPacket, TransmitPacket, CheckSize,
     LoadPacket, CheckDeadline, PollTxDone, AckTxDone, TransferLost, Read, Write, Transfer

LEMMA Returns ==
  ASSUME ~Down, pc # "loop", step = "ret", System
  PROVE  Down' \/ (pc' \in Sites /\ Ahead[pc'] < Ahead[pc])
  BY ReturnsToMain DEF Main, AfterReset, AfterVersion, AfterBegin, AfterTxHex, AfterListen, LoopHead,
     CheckRadio, DioReadFails, AfterReceive, AfterRepeat, CallFailed, Returned, Call, Leave,
     Ahead, Sites, Down

LEMMA AheadRange == \A s \in Sites : Ahead[s] \in 0 .. 5
<1> SUFFICES ASSUME NEW s \in Sites PROVE Ahead[s] \in 0 .. 5
  OBVIOUS
<1> QED
  BY SMTT(30) DEF Ahead, Sites

LEMMA CallsNearer ==
  ASSUME IInv, NEW k \in 1 .. 5, NEW j \in Nat, j = k - 1, Near(k), ~Near(j), [Next]_vars
  PROVE  /\ Near(k)' \/ Down'
         /\ step = "ret" => step' = "ret" \/ Near(j)' \/ Down'
         /\ step = "ret" /\ System => Near(j)' \/ Down'
<1>1. pc \in Sites /\ \A s \in Sites : Ahead[s] \in 0 .. 5
  BY MainParts, AheadRange DEF IInv, MainTypeOK
<1>2. ~Down /\ pc # "loop" /\ Ahead[pc] = k
  <2>1. ~Down /\ Ahead[pc] = k
    BY <1>1 DEF Near
  <2>2. Ahead["loop"] = 0
    BY DEF Ahead, Sites
  <2> QED
    BY <2>1, <2>2
<1>3. CASE System /\ step = "ret"
  BY <1>1, <1>2, <1>3, Returns DEF Near
<1>4. CASE System /\ step # "ret"
  BY <1>2, <1>4, CallSteps DEF Near, main
<1>5. CASE ~System
  BY <1>2, <1>5, OtherSteps DEF Near
<1> QED
  BY <1>3, <1>4, <1>5

LEMMA CallsEnd ==
  ASSUME NEW k \in 1 .. 5, NEW j \in Nat, j = k - 1
  PROVE  Lives => Approaches(k, j)
<1>1. IInv /\ Near(k) /\ ~Near(j) /\ [Next]_vars => Near(k)' \/ Down'
  BY CallsNearer
<1>2. IInv /\ Near(k) /\ ~Near(j) /\ step = "ret" /\ [Next]_vars => (step = "ret")' \/ Near(j)' \/ Down'
  BY CallsNearer
<1>3. IInv /\ Near(k) /\ ~Near(j) /\ step = "ret" /\ <<System>>_vars => Near(j)' \/ Down'
  BY CallsNearer DEF Next
<1>4. Near(k) => ~Down
  BY DEF Near
<1> QED
  BY <1>1, <1>2, <1>3, <1>4, CallReturns, Steppable, Invariance, PTL
     DEF Lives, Approaches, FairSpec, Fairness, Spec

LEMMA TurnEnds == Lives => (~Down ~> (Down \/ pc = "loop"))
<1>1. Lives => /\ Approaches(5, 4) /\ Approaches(4, 3) /\ Approaches(3, 2) /\ Approaches(2, 1)
               /\ Approaches(1, 0)
  BY CallsEnd, SMT
<1>2. IInv /\ ~Down => Near(5)
  BY MainParts DEF IInv, MainTypeOK, Ahead, Sites, Near, Down
<1>3. IInv /\ Near(0) => pc = "loop"
  BY MainParts DEF IInv, MainTypeOK, Ahead, Sites, Near, Down
<1> QED
  BY <1>1, <1>2, <1>3, Invariance, PTL DEF Lives, FairSpec, Approaches

\* A turn of main(), and start-up before the first, comes to the head of the
\* loop whatever the chip does and however long the air is busy: what
\* ServiceLifecycle and WebServer assume of the turns they take in one step.
THEOREM TurnsEnd == FairSpec /\ []GuardsEnable => (pc # "down" ~> pc \in {"down", "loop"})
<1>1. Down <=> pc = "down"
  BY DEF Down
<1>2. pc \in {"down", "loop"} <=> pc = "down" \/ pc = "loop"
  OBVIOUS
<1> QED
  BY <1>1, <1>2, GuardsLive, TurnEnds, PTL
-----------------------------------------------------------------------------
(* The promises.                                                           *)

LEMMA AtLoop ==
  ASSUME IInv, pc = "loop", System
  PROVE  pc' = (IF running THEN "tick" ELSE "down") /\ UNCHANGED <<chip, driver, running>>
<1>1. Main
  BY ReturnsToMain DEF IInv, Place
<1> QED
  BY <1>1 DEF Main, AfterReset, AfterVersion, AfterBegin, AfterTxHex, AfterListen, LoopHead,
     CheckRadio, DioReadFails, AfterReceive, AfterRepeat, CallFailed, Returned

\* Wherever SIGTERM finds the process, it comes to the head of its loop, where
\* the flag is looked at.
THEOREM StopCorrect == FairSpec /\ []GuardsEnable => StopObeyed
<1>1. IInv /\ ~Down /\ ~running /\ [Next]_vars => ~running' \/ Down'
  BY SystemRunning, OtherSteps
<1>2. IInv /\ pc = "loop" /\ ~running /\ [Next]_vars => (pc = "loop")' \/ Down'
  BY AtLoop, OtherSteps DEF Down
<1>3. IInv /\ pc = "loop" /\ ~running /\ <<System>>_vars => Down'
  BY AtLoop DEF Down
<1>4. Down <=> pc = "down"
  BY DEF Down
<1>5. pc = "loop" => ~Down
  BY DEF Down
<1> QED
  BY <1>1, <1>2, <1>3, <1>4, <1>5, GuardsLive, TurnEnds, Steppable, Invariance, PTL
     DEF StopObeyed, Lives, FairSpec, Fairness, Spec

\* A process that owes a packet has sent it when it is at the head of its loop.
THEOREM OwedCorrect == FairSpec /\ []GuardsEnable => OwedIsSent
<1>1. IInv /\ pc = "loop" => aired = Owed
  BY DEF IInv, Sending
<1>2. Down <=> pc = "down"
  BY DEF Down
<1>3. IInv => (since >= 0 /\ aired # Owed => Down \/ ~Down)
  OBVIOUS
<1> QED
  BY <1>1, <1>2, <1>3, GuardsLive, TurnEnds, Invariance, PTL DEF OwedIsSent, Lives, FairSpec

\* receive_packet at work on a frame, whose RxDone it has read.
Receiving == pc = "receive" /\ step \in PSteps /\ (step = "p_irq" \/ "RX_DONE" \in seen)

Waiting == "RX_DONE" \in irq /\ running

\* Only a lost write can leave the flag of a frame that was received: without
\* faults every waiting frame is served.
THEOREM WaitingCorrect ==
  ASSUME ~Faults
  PROVE  FairSpec /\ []GuardsEnable => WaitingFrameServed
<1>1. IInv /\ pc = "loop" /\ Waiting /\ [Next]_vars =>
        ~Waiting' \/ Down' \/ (pc = "loop")' \/ (pc = "tick")'
  BY AtLoop, OtherSteps DEF Waiting, Down
<1>2. IInv /\ pc = "loop" /\ Waiting /\ <<System>>_vars => (pc = "tick")'
  BY AtLoop DEF Waiting
<1>3. IInv /\ pc = "tick" /\ Waiting /\ System => Down' \/ Receiving'
  <2> SUFFICES ASSUME IInv, pc = "tick", Waiting, System PROVE Down' \/ Receiving'
    OBVIOUS
  <2>1. CheckRadio \/ DioReadFails
    BY ReturnsToMain DEF IInv, Place, Main, AfterReset, AfterVersion, AfterBegin, AfterTxHex,
       AfterListen, LoopHead, AfterReceive, AfterRepeat, CallFailed, Returned
  <2>2. DioHigh
    BY DEF IInv, Listening, DioHigh, Waiting
  <2> QED
    BY <2>1, <2>2 DEF CheckRadio, DioReadFails, Call, Leave, Receiving, PSteps, Down
<1>4. IInv /\ pc = "tick" /\ Waiting /\ [Next]_vars =>
        ~Waiting' \/ Down' \/ (pc = "tick")' \/ Receiving'
  BY <1>3, OtherSteps DEF Down
<1>5. IInv /\ pc = "tick" /\ Waiting /\ <<System>>_vars => Down' \/ Receiving'
  BY <1>3
<1>6. IInv /\ Receiving /\ Waiting /\ [Next]_vars => Receiving' \/ ~Waiting' \/ Down'
  <2> SUFFICES ASSUME IInv, Receiving, Waiting, [Next]_vars PROVE Receiving' \/ ~Waiting' \/ Down'
    OBVIOUS
  <2>1. CASE System
    <3>1. DriverStep
      BY <2>1, CallSteps DEF Receiving, PSteps, Down
    <3>2. ReceivePacket
      BY <3>1 DEF Receiving, PSteps, DriverStep, Driver, HardwareReset, ReadVersion, BeginLora,
         RxContinuous, TransmitPacket, CheckSize, LoadPacket, CheckDeadline, PollTxDone, AckTxDone,
         TransferLost, Write, Transfer
    <3>3. pc' = "receive"
      BY <3>1 DEF Receiving, DriverStep, main
    <3>4. CASE step = "p_irq"
      BY <3>2, <3>3, <3>4 DEF Receiving, Waiting, PSteps, ReceivePacket, ReadFlags, DropBadFrame,
         ReadPacket, ReadPayload, AckPacket, Read, Write, Transfer, Goto
    <3>5. CASE step \in {"p_crc", "p_clear"}
      BY <3>2, <3>5 DEF Receiving, Waiting, ReceivePacket, ReadFlags, DropBadFrame,
         ReadPacket, ReadPayload, AckPacket, Read, Write, Transfer, ClearIrq
    <3>6. CASE step \notin {"p_irq", "p_crc", "p_clear"}
      BY <3>2, <3>3, <3>6 DEF Receiving, Waiting, PSteps, ReceivePacket, ReadFlags, DropBadFrame,
         ReadPacket, ReadPayload, AckPacket, Read, Write, Transfer, Goto, locals
    <3> QED
      BY <3>4, <3>5, <3>6
  <2>2. CASE ~System
    BY <2>2, OtherSteps DEF Receiving, Down
  <2> QED
    BY <2>1, <2>2
<1>7. (pc = "loop" => ~Down) /\ (pc = "tick" => ~Down) /\ (Receiving => ~Down /\ ~(step = "ret"))
  BY DEF Down, Receiving, PSteps
<1>8. /\ Down <=> pc = "down"
      /\ ~Waiting <=> ("RX_DONE" \notin irq \/ ~running)
      /\ Waiting <=> ("RX_DONE" \in irq /\ running)
  BY DEF Down, Waiting
<1> QED
  BY <1>1, <1>2, <1>4, <1>5, <1>6, <1>7, <1>8, GuardsLive, CallReturns, Steppable, Invariance, PTL
     DEF WaitingFrameServed, Lives, FairSpec, Fairness, Spec
=============================================================================
