-------------------------- MODULE OtaUpdateProofs --------------------------
(***************************************************************************)
(* OtaUpdate keeps the image that a flashing child will read, for every    *)
(* set of images and every upload limit.                                   *)
(*                                                                         *)
(* FlashesWhatWasTested is not inductive: it needs to know that a process  *)
(* whose flashing child lives refuses uploads (the flag), that no process  *)
(* starts beside that child (the port), and what the handler knows of the  *)
(* file at each of its places.                                             *)
(***************************************************************************)
EXTENDS OtaUpdate, TLAPS

\* What the file is, place by place, while a request is handled.
FileInv ==
  /\ At("body") => file = File(req.image, left)
  /\ at \in {"test", "wait", "flash"} /\ up => file = File(req.image, 0)
  /\ At("wait") /\ tester = "passed" => req.image \in Valid
  /\ At("flash") => req.image \in Valid /\ ~req.validate

\* Who holds what while a flashing child lives.
FlagInv ==
  /\ FlagMeansForked
  /\ Busy => inProgress /\ ~forked
  /\ up /\ flasher # "none" => forked
  /\ flasher = "none" => accepted = {}

IInv == TypeOK /\ FileInv /\ FlagInv /\ FlashesWhatWasTested

USE OtaAssumption

\* TypeOK in two parts, for two provers.
Flags == /\ up \in BOOLEAN /\ running \in BOOLEAN /\ forked \in BOOLEAN
         /\ stalled \in BOOLEAN /\ inProgress \in BOOLEAN
Data ==
  /\ at \in {"idle", "open", "body", "test", "wait", "flash"}
  /\ req \in Request /\ left \in 0 .. MaxSize
  /\ answer \in {0, 200, 202, 400, 403, 409, 413, 500}
  /\ file = NoFile \/ \E i \in Images, n \in 0 .. MaxSize : file = File(i, n)
  /\ tester \in {"none", "running", "passed", "failed"}
  /\ flasher \in {"none", "sleeping", "flashing"}
  /\ accepted \subseteq Images
  /\ firmware \in Images

LEMMA TypeParts == (TypeOK <=> Flags /\ Data) /\ (TypeOK' <=> Flags' /\ Data')
  BY DEF TypeOK, Flags, Data

LEMMA NextFlags == Flags /\ [Next]_vars => Flags'
<1> SUFFICES ASSUME Flags, [Next]_vars PROVE Flags'
  OBVIOUS
<1> USE DEF Flags
<1>1. CASE RejectForbidden \/ RejectBusy \/ RejectSize
  BY <1>1 DEF RejectForbidden, RejectBusy, RejectSize, Reject, process, flash
<1>2. CASE BeginUpload
  BY <1>2 DEF BeginUpload, process, flash
<1>3. CASE OpenImage
  BY <1>3 DEF OpenImage, Goto, Finish, process, flash, Request
<1>4. CASE WriteBody
  BY <1>4 DEF WriteBody, process, flash, Request
<1>5. CASE BodyFails
  BY <1>5 DEF BodyFails, Finish, process, flash
<1>6. CASE BodyComplete
  BY <1>6 DEF BodyComplete, Goto, process, flash
<1>7. CASE StartTest
  BY <1>7 DEF StartTest, Goto, Finish, process, flash
<1>8. CASE TestFailed
  BY <1>8 DEF TestFailed, Finish, process, flash
<1>9. CASE Validated
  BY <1>9 DEF Validated, Finish, process, flash
<1>10. CASE ToFlash
  BY <1>10 DEF ToFlash, Goto, process, flash
<1>11. CASE StartFlash
  BY <1>11 DEF StartFlash, Finish, Request
<1>12. CASE ClientStalls \/ TesterEnds \/ FlasherWakes \/ FlasherDies
  BY <1>12 DEF ClientStalls, TesterEnds, FlasherWakes, FlasherDies, process, handler, flash
<1>13. CASE FlashAndReboot
  BY <1>13 DEF FlashAndReboot, Whole
<1>14. CASE HandleSignal \/ Stop \/ Crash \/ Start
  BY <1>14 DEF HandleSignal, Stop, Crash, Start, handler, flash
<1>15. CASE UNCHANGED vars
  BY <1>15 DEF vars, process, handler, flash
<1> QED
  BY <1>1, <1>2, <1>3, <1>4, <1>5, <1>6, <1>7, <1>8, <1>9, <1>10, <1>11, <1>12, <1>13, <1>14, <1>15
  DEF Next, Handler

LEMMA NextData == Data /\ [Next]_vars => Data'
<1> SUFFICES ASSUME Data, [Next]_vars PROVE Data'
  OBVIOUS
<1> USE DEF Data
<1>1. CASE RejectForbidden \/ RejectBusy \/ RejectSize
  BY <1>1 DEF RejectForbidden, RejectBusy, RejectSize, Reject, process, flash
<1>2. CASE BeginUpload
  BY <1>2 DEF BeginUpload, process, flash
<1>3. CASE OpenImage
  BY <1>3 DEF OpenImage, Goto, Finish, process, flash, Request
<1>4. CASE WriteBody
  BY <1>4 DEF WriteBody, process, flash, Request
<1>5. CASE BodyFails
  BY <1>5 DEF BodyFails, Finish, process, flash
<1>6. CASE BodyComplete
  BY <1>6 DEF BodyComplete, Goto, process, flash
<1>7. CASE StartTest
  BY <1>7 DEF StartTest, Goto, Finish, process, flash
<1>8. CASE TestFailed
  BY <1>8 DEF TestFailed, Finish, process, flash
<1>9. CASE Validated
  BY <1>9 DEF Validated, Finish, process, flash
<1>10. CASE ToFlash
  BY <1>10 DEF ToFlash, Goto, process, flash
<1>11. CASE StartFlash
  BY <1>11 DEF StartFlash, Finish, Request
<1>12. CASE ClientStalls \/ TesterEnds \/ FlasherWakes \/ FlasherDies
  BY <1>12 DEF ClientStalls, TesterEnds, FlasherWakes, FlasherDies, process, handler, flash
<1>13. CASE FlashAndReboot
  BY <1>13 DEF FlashAndReboot, Whole
<1>14. CASE HandleSignal \/ Stop \/ Crash \/ Start
  BY <1>14 DEF HandleSignal, Stop, Crash, Start, handler, flash
<1>15. CASE UNCHANGED vars
  BY <1>15 DEF vars, process, handler, flash
<1> QED
  BY <1>1, <1>2, <1>3, <1>4, <1>5, <1>6, <1>7, <1>8, <1>9, <1>10, <1>11, <1>12, <1>13, <1>14, <1>15
  DEF Next, Handler

LEMMA InitTypeOK == Init => TypeOK
<1>1. Init => Flags
  BY Zenon DEF Init, Flags
<1>2. Init => Data
  BY DEF Init, Data
<1> QED
  BY <1>1, <1>2, TypeParts

-----------------------------------------------------------------------------
LEMMA NextFileInv == TypeOK /\ FileInv /\ [Next]_vars => FileInv'
<1> SUFFICES ASSUME Flags, Data, FileInv, [Next]_vars PROVE FileInv'
  BY TypeParts
<1> USE DEF FileInv, At, Busy
<1>1. CASE RejectForbidden \/ RejectBusy \/ RejectSize
  BY <1>1 DEF RejectForbidden, RejectBusy, RejectSize, Reject, process, flash
<1>2. CASE BeginUpload
  BY <1>2 DEF BeginUpload, process, flash
<1>3. CASE OpenImage
  BY <1>3 DEF OpenImage, Goto, Finish, process, flash, Request
<1>4. CASE WriteBody
  BY <1>4 DEF WriteBody, process, flash, Request
<1>5. CASE BodyFails
  BY <1>5 DEF BodyFails, Finish, process, flash
<1>6. CASE BodyComplete
  BY <1>6 DEF BodyComplete, Goto, process, flash
<1>7. CASE StartTest
  BY <1>7 DEF StartTest, Goto, Finish, process, flash
<1>8. CASE TestFailed
  BY <1>8 DEF TestFailed, Finish, process, flash
<1>9. CASE Validated
  BY <1>9 DEF Validated, Finish, process, flash
<1>10. CASE ToFlash
  BY <1>10 DEF ToFlash, Goto, process, flash
<1>11. CASE StartFlash
  BY <1>11 DEF StartFlash, Finish, Request
<1>12. CASE ClientStalls \/ TesterEnds \/ FlasherWakes \/ FlasherDies
  <2>1. CASE ClientStalls
    BY <2>1 DEF ClientStalls, process, flash
  <2>2. CASE TesterEnds
    <3>1. UNCHANGED <<process, handler, file, flash>>
      BY <2>2 DEF TesterEnds
    <3>2. ASSUME At("wait"), tester' = "passed" PROVE req.image \in Valid
      <4>1. PICK i \in Valid : file = File(i, 0)
        BY <2>2, <3>2 DEF TesterEnds, Whole
      <4>2. File(i, 0) = File(req.image, 0)
        BY <3>2, <4>1
      <4>3. [image |-> i, missing |-> 0].image = [image |-> req.image, missing |-> 0].image
        BY <4>2 DEF File
      <4> QED
        BY <4>3
    <3> QED
      BY <3>1, <3>2 DEF process, handler
  <2>3. CASE FlasherWakes \/ FlasherDies
    BY <2>3 DEF FlasherWakes, FlasherDies, process, handler
  <2> QED
    BY <1>12, <2>1, <2>2, <2>3
<1>13. CASE FlashAndReboot
  BY <1>13 DEF FlashAndReboot, Whole
<1>14. CASE HandleSignal \/ Stop \/ Crash \/ Start
  BY <1>14 DEF HandleSignal, Stop, Crash, Start, handler, flash
<1>15. CASE UNCHANGED vars
  BY <1>15 DEF vars, process, handler, flash
<1> QED
  BY <1>1, <1>2, <1>3, <1>4, <1>5, <1>6, <1>7, <1>8, <1>9, <1>10, <1>11, <1>12, <1>13, <1>14, <1>15
  DEF Next, Handler

LEMMA NextFlagInv == TypeOK /\ FlagInv /\ [Next]_vars => FlagInv'
<1> SUFFICES ASSUME Flags, Data, FlagInv, [Next]_vars PROVE FlagInv'
  BY TypeParts
<1> USE DEF FlagInv, FlagMeansForked, At, Busy
<1>1. CASE RejectForbidden \/ RejectBusy \/ RejectSize
  BY <1>1 DEF RejectForbidden, RejectBusy, RejectSize, Reject, process, flash
<1>2. CASE BeginUpload
  BY <1>2 DEF BeginUpload, process, flash
<1>3. CASE OpenImage
  <2>1. CASE Goto("body")
    BY <1>3, <2>1 DEF OpenImage, Goto, process, flash
  <2>2. CASE Finish(500)
    BY <1>3, <2>2 DEF OpenImage, Finish, process, flash
  <2> QED
    BY <1>3, <2>1, <2>2 DEF OpenImage
<1>4. CASE WriteBody
  BY <1>4 DEF WriteBody, process, flash, Request
<1>5. CASE BodyFails
  BY <1>5 DEF BodyFails, Finish, process, flash
<1>6. CASE BodyComplete
  BY <1>6 DEF BodyComplete, Goto, process, flash
<1>7. CASE StartTest
  <2>1. CASE Goto("wait")
    BY <1>7, <2>1 DEF StartTest, Goto, process, flash
  <2>2. CASE Finish(400)
    BY <1>7, <2>2 DEF StartTest, Finish, process, flash
  <2> QED
    BY <1>7, <2>1, <2>2 DEF StartTest
<1>8. CASE TestFailed
  BY <1>8 DEF TestFailed, Finish, process, flash
<1>9. CASE Validated
  BY <1>9 DEF Validated, Finish, process, flash
<1>10. CASE ToFlash
  BY <1>10 DEF ToFlash, Goto, process, flash
<1>11. CASE StartFlash
  <2>1. CASE Finish(500)
    BY <1>11, <2>1 DEF StartFlash, Finish
  <2>2. CASE flasher' = "sleeping" /\ forked' = TRUE /\ at' = "idle" /\ UNCHANGED inProgress
    BY <1>11, <2>2 DEF StartFlash
  <2> QED
    BY <1>11, <2>1, <2>2 DEF StartFlash, Finish
<1>12. CASE ClientStalls \/ TesterEnds \/ FlasherWakes \/ FlasherDies
  <2>1. CASE ClientStalls \/ TesterEnds
    BY <2>1 DEF ClientStalls, TesterEnds, process, handler, flash
  <2>2. CASE FlasherWakes \/ FlasherDies
    BY <2>2 DEF FlasherWakes, FlasherDies, process, handler
  <2> QED
    BY <1>12, <2>1, <2>2
<1>13. CASE FlashAndReboot
  BY <1>13 DEF FlashAndReboot, Whole
<1>14. CASE HandleSignal \/ Stop \/ Crash \/ Start
  <2>1. CASE HandleSignal \/ Stop \/ Crash
    BY <2>1 DEF HandleSignal, Stop, Crash, handler, flash
  <2>2. CASE Start
    BY <2>2 DEF Start, PortIsFree, flash
  <2> QED
    BY <1>14, <2>1, <2>2
<1>15. CASE UNCHANGED vars
  BY <1>15 DEF vars, process, handler, flash
<1> QED
  BY <1>1, <1>2, <1>3, <1>4, <1>5, <1>6, <1>7, <1>8, <1>9, <1>10, <1>11, <1>12, <1>13, <1>14, <1>15
  DEF Next, Handler

\* While the flashing child lives no request is handled, and nothing else
\* touches the file.
LEMMA NextFlashes ==
  TypeOK /\ FileInv /\ FlagInv /\ FlashesWhatWasTested /\ [Next]_vars => FlashesWhatWasTested'
<1> SUFFICES ASSUME Flags, Data, FileInv, FlagInv, FlashesWhatWasTested, [Next]_vars
             PROVE  FlashesWhatWasTested'
  BY TypeParts
<1>1. CASE Handler
  <2>1. Busy /\ flasher = "none"
    BY <1>1, Zenon DEF Handler, FlagInv, OpenImage, WriteBody, BodyFails, BodyComplete, StartTest,
          TestFailed, Validated, ToFlash, StartFlash, At, Busy
  <2>2. CASE StartFlash /\ flasher' = "sleeping"
    <3>1. accepted' = {req.image} /\ file' = file
      BY <2>1, <2>2 DEF StartFlash
    <3>2. file = File(req.image, 0) /\ req.image \in Valid
      BY <2>2 DEF StartFlash, FileInv, At, Busy
    <3>3. accepted' = {req.image} /\ file' = File(req.image, 0)
      BY <3>1, <3>2
    <3> QED
      BY <3>2, <3>3, Zenon DEF FlashesWhatWasTested, File
  <2>3. CASE UNCHANGED flasher
    BY <2>1, <2>3 DEF FlashesWhatWasTested
  <2> QED
    BY <1>1, <2>2, <2>3 DEF Handler, OpenImage, WriteBody, BodyFails, BodyComplete, StartTest,
       TestFailed, Validated, ToFlash, StartFlash, flash
<1>2. CASE FlasherWakes \/ FlasherDies \/ FlashAndReboot
  BY <1>2 DEF FlasherWakes, FlasherDies, FlashAndReboot, FlashesWhatWasTested
<1>3. CASE UNCHANGED <<file, flash>>
  BY <1>3 DEF FlashesWhatWasTested, flash
<1> QED
  BY <1>1, <1>2, <1>3
  DEF Next, RejectForbidden, RejectBusy, RejectSize, Reject, BeginUpload, ClientStalls,
      TesterEnds, HandleSignal, Stop, Crash, Start, vars, handler

LEMMA InitIInv == Init => IInv
<1>1. Init => FileInv
  BY DEF Init, FileInv, At, Busy
<1>2. Init => FlagInv
  BY DEF Init, FlagInv, FlagMeansForked, Busy
<1>3. Init => FlashesWhatWasTested
  BY DEF Init, FlashesWhatWasTested
<1> QED
  BY InitTypeOK, <1>1, <1>2, <1>3 DEF IInv

LEMMA NextIInv == IInv /\ [Next]_vars => IInv'
<1>1. TypeOK /\ [Next]_vars => TypeOK'
  BY TypeParts, NextFlags, NextData
<1> QED
  BY <1>1, NextFileInv, NextFlagInv, NextFlashes DEF IInv

\* The inductive invariant holds throughout.
THEOREM Invariance == Spec => []IInv
  BY InitIInv, NextIInv, PTL DEF Spec

\* Every variable keeps its type, whatever the images and the upload limit.
THEOREM TypeCorrect == Spec => []TypeOK
<1>1. IInv => TypeOK
  BY DEF IInv
<1> QED
  BY <1>1, Invariance, PTL

\* Between two requests ota_in_progress says whether this process has forked a
\* flashing child, on every path through handle_ota_upload.
THEOREM FlagCorrect == Spec => []FlagMeansForked
<1>1. IInv => FlagMeansForked
  BY DEF IInv, FlagInv
<1> QED
  BY <1>1, Invariance, PTL

\* No upload, restart or crash touches the image between its validation and
\* the end of the child that flashes it.
THEOREM FlashSafe == Spec => []FlashesWhatWasTested
<1>1. IInv => FlashesWhatWasTested
  BY DEF IInv
<1> QED
  BY <1>1, Invariance, PTL

\* The endpoint implements FirmwareUpgrade: the device only ever runs images
\* that were validated and accepted for flashing, one at a time.
THEOREM UpgradeRefinement == Spec => UpgradesSafely
<1>1. Init => Upgrade!Init
  BY DEF Init, Upgrade!Init
<1>2. IInv /\ [Next]_vars => [Upgrade!Next]_<<accepted, firmware>>
  <2> SUFFICES ASSUME IInv, [Next]_vars
               PROVE  Upgrade!Next \/ UNCHANGED <<accepted, firmware>>
    OBVIOUS
  <2>1. CASE StartFlash /\ accepted' = {req.image}
    <3>1. accepted = {}
      BY <2>1 DEF StartFlash, IInv, FlagInv, At, Busy
    <3>2. req.image \in Valid
      BY <2>1 DEF StartFlash, IInv, FileInv
    <3> QED
      BY <2>1, <3>1, <3>2 DEF StartFlash, Upgrade!Next, Upgrade!Accept
  <2>2. CASE FlasherDies
    BY <2>2 DEF FlasherDies, Upgrade!Next, Upgrade!Abandon
  <2>3. CASE FlashAndReboot
    <3>1. PICK i \in Valid : accepted = {i} /\ file = File(i, 0)
      BY <2>3 DEF FlashAndReboot, IInv, FlashesWhatWasTested
    <3>2. file = File(firmware', 0)
      BY <2>3 DEF FlashAndReboot, Whole
    <3>3. [image |-> firmware', missing |-> 0].image = [image |-> i, missing |-> 0].image
      BY <3>1, <3>2 DEF File
    <3>4. firmware' \in accepted
      BY <3>1, <3>3
    <3> QED
      BY <2>3, <3>4 DEF FlashAndReboot, Upgrade!Next, Upgrade!Flash
  <2>4. CASE UNCHANGED <<accepted, firmware>>
    BY <2>4
  <2> QED
    BY <2>1, <2>2, <2>3, <2>4
    DEF Next, RejectForbidden, RejectBusy, RejectSize, Reject, BeginUpload, Handler, OpenImage,
        WriteBody, BodyFails, BodyComplete, StartTest, TestFailed, Validated, ToFlash, StartFlash,
        ClientStalls, TesterEnds, FlasherWakes, HandleSignal, Stop, Crash, Start, vars, flash
<1> QED
  BY <1>1, <1>2, Invariance, PTL DEF Spec, UpgradesSafely, Upgrade!Spec

LEMMA NextAnswers == IInv /\ [Next]_vars /\ up' /\ Busy /\ at' = "idle" =>
  /\ answer' = 202 <=> (flasher = "none" /\ flasher' = "sleeping")
  /\ answer' = 202 => ~req.validate
  /\ answer' = 200 => req.validate /\ file' = NoFile
<1> SUFFICES ASSUME IInv, [Next]_vars, up', Busy, at' = "idle"
             PROVE  /\ answer' = 202 <=> (flasher = "none" /\ flasher' = "sleeping")
                    /\ answer' = 202 => ~req.validate
                    /\ answer' = 200 => req.validate /\ file' = NoFile
  OBVIOUS
<1>1. Handler
  BY DEF Next, RejectForbidden, RejectBusy, RejectSize, BeginUpload, Arrive, ClientStalls, TesterEnds,
     FlasherWakes, FlasherDies, FlashAndReboot, HandleSignal, Stop, Crash, Start, Busy, vars, handler
<1>2. flasher = "none"
  BY Zenon DEF IInv, FlagInv, Busy
<1>3. CASE OpenImage \/ WriteBody \/ BodyFails \/ BodyComplete \/ StartTest \/ TestFailed
  BY <1>2, <1>3 DEF OpenImage, WriteBody, BodyFails, BodyComplete, StartTest, TestFailed, Goto,
     Finish, At, flash
<1>4. CASE Validated \/ ToFlash
  BY <1>2, <1>4 DEF Validated, ToFlash, Goto, Finish, flash
<1>5. CASE StartFlash
  <2>1. ~req.validate
    BY <1>5 DEF StartFlash, IInv, FileInv
  <2> QED
    BY <1>2, <1>5, <2>1 DEF StartFlash, Finish
<1> QED
  BY <1>1, <1>3, <1>4, <1>5 DEF Handler

\* The client is told 202 exactly when the flashing child was forked, and 200
\* only for a validation that left no file.
THEOREM AnswersCorrect == Spec => AnswersAreTrue
  BY NextAnswers, Invariance, PTL DEF Spec, AnswersAreTrue

-----------------------------------------------------------------------------
(* The flag is never taken back: what the finding about 409 rests on.      *)

\* Once ota_in_progress is up between two requests, that is once a flashing
\* child was forked, this process refuses every upload for the rest of its life,
\* also when the child failed: the parent never learns how it ended.
FlagStays ==
  [][up /\ at = "idle" /\ inProgress /\ up' => at' = "idle" /\ inProgress']_vars

THEOREM FlagNeverFalls == Spec => FlagStays
<1>1. ASSUME [Next]_vars, up, at = "idle", inProgress, up'
      PROVE  at' = "idle" /\ inProgress'
  <2>1. ~Busy /\ ~Handler
    BY <1>1 DEF Busy, At, Handler, OpenImage, WriteBody, BodyFails, BodyComplete, StartTest,
       TestFailed, Validated, ToFlash, StartFlash
  <2>2. ~BeginUpload /\ ~FlashAndReboot /\ ~Start /\ ~Stop /\ ~Crash
    BY <1>1 DEF BeginUpload, FlashAndReboot, Start, Stop, Crash
  <2>3. CASE RejectForbidden \/ RejectBusy \/ RejectSize \/ ClientStalls
    BY <1>1, <2>3 DEF RejectForbidden, RejectBusy, RejectSize, Reject, ClientStalls
  <2>4. CASE TesterEnds \/ FlasherWakes \/ FlasherDies \/ HandleSignal \/ UNCHANGED vars
    BY <1>1, <2>4 DEF TesterEnds, FlasherWakes, FlasherDies, HandleSignal, handler, vars
  <2> QED
    BY <1>1, <2>1, <2>2, <2>3, <2>4 DEF Next
<1> QED
  BY <1>1, PTL DEF Spec, FlagStays

-----------------------------------------------------------------------------
(* The handler waits for nothing but sysupgrade -T: everywhere else the    *)
(* guard of some action of it holds.                                       *)

HandlerReady ==
  \/ At("open") \/ At("body") \/ At("test") \/ At("flash")
  \/ At("wait") /\ tester \in {"failed", "passed"}

\* What ENABLED says: an action whose guard holds can be taken, since the rest
\* of it only gives the variables their next values.
GuardsEnable ==
  /\ HandlerReady => ENABLED <<Handler>>_vars
  /\ tester = "running" => ENABLED <<TesterEnds>>_vars

\* The handler waits only for a child that it has forked.
WaitsForChild == At("wait") => tester # "none"

LEMMA NextWaits == WaitsForChild /\ [Next]_vars => WaitsForChild'
<1> SUFFICES ASSUME WaitsForChild, [Next]_vars PROVE WaitsForChild'
  OBVIOUS
<1> USE DEF WaitsForChild, At, Busy, process, handler, flash
<1>1. ASSUME at' # "wait" PROVE WaitsForChild'
  BY <1>1
<1>2. ASSUME UNCHANGED <<up, at, tester>> PROVE WaitsForChild'
  BY <1>2
<1>3. CASE StartTest \/ TesterEnds \/ Crash \/ Stop
  BY <1>3 DEF StartTest, Goto, Finish, TesterEnds, Crash, Stop
<1>4. CASE RejectForbidden \/ RejectBusy \/ RejectSize \/ HandleSignal \/ UNCHANGED vars
  BY <1>2, <1>4 DEF RejectForbidden, RejectBusy, RejectSize, Reject, HandleSignal, vars
<1>5. CASE WriteBody \/ ClientStalls \/ FlasherWakes \/ FlasherDies
  BY <1>2, <1>5 DEF WriteBody, ClientStalls, FlasherWakes, FlasherDies
<1>6. CASE OpenImage \/ BodyFails \/ BodyComplete \/ TestFailed \/ Validated \/ ToFlash \/ StartFlash
  BY <1>1, <1>6 DEF OpenImage, BodyFails, BodyComplete, TestFailed, Validated, ToFlash, StartFlash,
     Goto, Finish
<1>7. CASE BeginUpload \/ FlashAndReboot \/ Start
  BY <1>1, <1>7 DEF BeginUpload, FlashAndReboot, Start
<1> QED
  BY <1>3, <1>4, <1>5, <1>6, <1>7 DEF Next, Handler

\* No call of the handler waits for what a client withholds.
THEOREM NeverBlocked == Spec => [](Busy /\ ~(at = "wait" /\ tester = "running") => HandlerReady)
<1>1. Init => WaitsForChild
  BY DEF Init, WaitsForChild, At, Busy
<1>2. IInv /\ WaitsForChild => (Busy /\ ~(at = "wait" /\ tester = "running") => HandlerReady)
  BY DEF IInv, TypeOK, WaitsForChild, HandlerReady, At, Busy
<1> QED
  BY <1>1, <1>2, NextWaits, Invariance, PTL DEF Spec

\* CanStep, of which ENABLED is all that stays with TLC.
THEOREM CanStepCorrect == Spec /\ []GuardsEnable => []CanStep
<1>1. GuardsEnable /\ (Busy /\ ~(at = "wait" /\ tester = "running") => HandlerReady) => CanStep
  BY DEF GuardsEnable, CanStep
<1> QED
  BY <1>1, NeverBlocked, PTL

-----------------------------------------------------------------------------
(* Liveness: a request goes through at most five places, and in the body   *)
(* at most as many times through recv as bytes are left.                   *)

Lives == FairSpec /\ []CanStep

LEMMA GuardsLive == FairSpec /\ []GuardsEnable => Lives
BY CanStepCorrect, PTL DEF Lives, FairSpec

\* The handler in write_ota_body with at most n bytes left.
Body(n) == At("body") /\ left <= n
LeavesBody == <>(~At("body"))
Empties(n) == [](Body(n) => LeavesBody)

\* Induction over the bytes left: an instance of NatInduction of the library,
\* for a formula about the future.
InductionOnLeft ==
  Empties(0) /\ (\A n \in Nat : Empties(n) => Empties(n + 1)) => \A n \in Nat : Empties(n)

\* A step that is not the handler's leaves its place alone, or ends the process.
LEMMA OtherStep ==
  ASSUME Busy, ~Handler, [Next]_vars
  PROVE  ~Busy' \/ (UNCHANGED <<up, at, left>> /\ (tester' = tester \/ TesterEnds))
<1>1. ~(RejectForbidden \/ RejectBusy \/ RejectSize \/ BeginUpload \/ Stop \/ Start)
  BY DEF Busy, RejectForbidden, RejectBusy, RejectSize, BeginUpload, Arrive, Stop, Start
<1>2. CASE FlashAndReboot \/ Crash
  BY <1>2 DEF FlashAndReboot, Crash, Busy
<1>3. CASE ClientStalls \/ TesterEnds \/ FlasherWakes \/ FlasherDies \/ HandleSignal \/ UNCHANGED vars
  BY <1>3 DEF ClientStalls, TesterEnds, FlasherWakes, FlasherDies, HandleSignal, vars, process, handler
<1> QED
  BY <1>1, <1>2, <1>3 DEF Next

\* Where the handler goes from each of its places.
LEMMA HandlerStep ==
  ASSUME left \in Nat, Busy, Handler
  PROVE  /\ at = "open" => At("body")' \/ ~Busy'
         /\ at = "body" => (At("body")' /\ left' \in 0 .. left - 1) \/ At("test")' \/ ~Busy'
         /\ at = "test" => At("wait")' \/ ~Busy'
         /\ at = "wait" => At("flash")' \/ ~Busy'
         /\ at = "flash" => ~Busy'
<1> USE DEF At, Busy, process
<1>1. CASE OpenImage \/ BodyComplete
  BY <1>1 DEF OpenImage, BodyComplete, Goto, Finish
<1>2. CASE WriteBody
  BY <1>2 DEF WriteBody
<1>3. CASE BodyFails \/ TestFailed \/ Validated
  BY <1>3 DEF BodyFails, TestFailed, Validated, Finish
<1>4. CASE StartTest \/ ToFlash \/ StartFlash
  BY <1>4 DEF StartTest, ToFlash, StartFlash, Goto, Finish
<1> QED
  BY <1>1, <1>2, <1>3, <1>4 DEF Handler

LEMMA BodyStep ==
  ASSUME IInv, At("body"), [Next]_vars, NEW n \in Nat
  PROVE  /\ Body(n) => Body(n)' \/ ~At("body")'
         /\ Handler => (Body(0) => ~At("body")') /\ (Body(n + 1) => Body(n)' \/ ~At("body")')
         /\ At("body")' \/ At("test")' \/ ~Busy'
<1>1. left \in Nat /\ Busy /\ at = "body"
  BY DEF IInv, TypeOK, At
<1>2. ~At("body")' \/ ~Busy' \/ At("body")'
  OBVIOUS
<1>3. ~Busy' => ~At("body")'
  BY DEF At
<1>4. At("test")' => ~At("body")'
  BY DEF At
<1>5. CASE Handler
  BY <1>1, <1>3, <1>4, <1>5, HandlerStep DEF Body
<1>6. CASE ~Handler
  <2>1. ~Busy' \/ (UNCHANGED <<up, at, left>>)
    BY <1>1, <1>6, OtherStep
  <2>2. UNCHANGED <<up, at>> => At("body")'
    BY DEF At, Busy
  <2> QED
    BY <1>3, <1>6, <2>1, <2>2 DEF Body
<1> QED
  BY <1>5, <1>6

LEMMA Handling ==
  ASSUME IInv, Busy, [Next]_vars
  PROVE  /\ ~Handler => ~Busy' \/ (UNCHANGED <<at, up>> /\ (tester' = tester \/ tester' # "running"))
         /\ Handler /\ at = "open" => At("body")' \/ ~Busy'
         /\ Handler /\ at = "test" => At("wait")' \/ ~Busy'
         /\ Handler /\ at = "wait" => At("flash")' \/ ~Busy'
         /\ Handler /\ at = "flash" => ~Busy'
<1>1. left \in Nat
  BY DEF IInv, TypeOK
<1> QED
  BY <1>1, HandlerStep, OtherStep DEF TesterEnds

LEMMA Steppable ==
  CanStep => /\ Busy /\ ~At("wait") => ENABLED <<Handler>>_vars
             /\ At("wait") /\ ~(tester = "running") => ENABLED <<Handler>>_vars
             /\ tester = "running" => ENABLED <<TesterEnds>>_vars
  BY DEF CanStep, At

LEMMA EmptyBodyEnds == Lives => Empties(0)
<1>1. IInv /\ Body(0) /\ [Next]_vars => Body(0)' \/ ~At("body")'
  BY BodyStep DEF Body
<1>2. IInv /\ Body(0) /\ <<Handler>>_vars => ~At("body")'
  BY BodyStep DEF Body, Next
<1>3. Body(0) => At("body") /\ Busy /\ ~At("wait")
  BY DEF Body, At
<1> QED
  BY <1>1, <1>2, <1>3, Steppable, Invariance, PTL DEF Lives, Empties, LeavesBody, FairSpec, Spec

LEMMA BodyEmpties ==
  ASSUME NEW n \in Nat
  PROVE  Lives => (Empties(n) => Empties(n + 1))
<1>1. IInv /\ Body(n + 1) /\ [Next]_vars => Body(n + 1)' \/ ~At("body")'
  BY BodyStep DEF Body
<1>2. IInv /\ Body(n + 1) /\ <<Handler>>_vars => Body(n)' \/ ~At("body")'
  BY BodyStep DEF Body, Next
<1>3. Body(n + 1) => At("body") /\ Busy /\ ~At("wait")
  BY DEF Body, At
<1> QED
  BY <1>1, <1>2, <1>3, Steppable, Invariance, PTL DEF Lives, Empties, LeavesBody, FairSpec, Spec

LEMMA BodyEnds == Lives /\ InductionOnLeft => [](At("body") => <>(~At("body")))
<1>1. Lives => Empties(0) /\ \A n \in Nat : Empties(n) => Empties(n + 1)
  BY EmptyBodyEnds, BodyEmpties
<1>2. Lives /\ InductionOnLeft => \A n \in Nat : Empties(n)
  BY <1>1 DEF InductionOnLeft
<1>3. Lives /\ InductionOnLeft => Empties(MaxSize)
  BY <1>2
<1>4. IInv /\ At("body") => Body(MaxSize)
  BY DEF IInv, TypeOK, Body
<1> QED
  BY <1>3, <1>4, Invariance, PTL DEF Lives, Empties, LeavesBody, FairSpec

\* A request that is being handled is answered, or the process dies, for any
\* limit of the size: each place of the handler is left.
THEOREM RequestCorrect == FairSpec /\ []GuardsEnable /\ InductionOnLeft => RequestEnds
<1>1. IInv /\ At("open") /\ [Next]_vars => At("open")' \/ At("body")' \/ ~Busy'
  BY Handling DEF At, Busy
<1>2. IInv /\ At("body") /\ [Next]_vars => At("body")' \/ At("test")' \/ ~Busy'
  BY BodyStep
<1>3. IInv /\ At("test") /\ [Next]_vars => At("test")' \/ At("wait")' \/ ~Busy'
  BY Handling DEF At, Busy
<1>4. IInv /\ At("wait") /\ [Next]_vars => At("wait")' \/ At("flash")' \/ ~Busy'
  BY Handling DEF At, Busy
<1>5. IInv /\ At("flash") /\ [Next]_vars => At("flash")' \/ ~Busy'
  BY Handling DEF At, Busy
<1>6. IInv /\ <<Handler>>_vars =>
        /\ At("open") => At("body")' \/ ~Busy'
        /\ At("test") => At("wait")' \/ ~Busy'
        /\ At("wait") => At("flash")' \/ ~Busy'
        /\ At("flash") => ~Busy'
  BY Handling DEF At, Busy, Next
<1>7. IInv /\ At("wait") /\ ~(tester = "running") /\ [Next]_vars =>
        ~(tester = "running")' \/ At("flash")' \/ ~Busy'
  BY Handling DEF At, Busy
<1>8. tester = "running" /\ <<TesterEnds>>_vars => ~(tester = "running")'
  BY DEF TesterEnds
<1>9. IInv /\ Busy => At("open") \/ At("body") \/ At("test") \/ At("wait") \/ At("flash")
  BY DEF IInv, TypeOK, Busy, At
<1>10. /\ At("open") => Busy /\ ~At("wait")
       /\ At("body") => Busy /\ ~At("wait")
       /\ At("test") => Busy /\ ~At("wait")
       /\ At("wait") => Busy
       /\ At("flash") => Busy /\ ~At("wait")
  BY DEF At
<1> QED
  BY <1>1, <1>2, <1>3, <1>4, <1>5, <1>6, <1>7, <1>8, <1>9, <1>10, BodyEnds, GuardsLive,
     Steppable, Invariance, PTL
     DEF RequestEnds, Lives, FairSpec, Spec
=============================================================================
