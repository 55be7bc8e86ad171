----------------------------- MODULE OtaUpdate -----------------------------
(***************************************************************************)
(* The OTA endpoint of src/src/web_server.cpp: handle_ota_upload and what  *)
(* it calls, with the two sysupgrade children it forks, the image file and *)
(* restarts of the daemon.                                                 *)
(*                                                                         *)
(* The daemon has one thread, so one request is handled at a time.  Around *)
(* it run: the validating child (sysupgrade -T), which the handler waits   *)
(* for; the flashing child, which nobody waits for and which sleeps for    *)
(* two seconds before it looks at the image file; signals and crashes of   *)
(* the daemon, which both children survive; and the next start of the      *)
(* daemon.  The children inherit the listening socket, so no daemon can    *)
(* bind the port while one of them lives.                                  *)
(*                                                                         *)
(* Assumed: web_bind and web_port, which each start reads from the         *)
(* configuration file, are not edited while such a child lives.  A daemon  *)
(* with another port would not be held back, and could overwrite the image *)
(* the child is about to flash.                                            *)
(***************************************************************************)
EXTENDS Integers

CONSTANTS
  Images,   \* what clients upload (a truncated image is another image)
  Valid,    \* those that sysupgrade accepts
  MaxSize   \* ota_max_upload_bytes, in chunks

ASSUME OtaAssumption ==
  /\ Images # {} /\ Valid \subseteq Images
  /\ MaxSize \in Nat \ {0}

VARIABLES
  up,          \* the daemon process exists
  running,     \* g_running
  at,          \* where handle_ota_upload is, "idle" outside of it
  req,         \* the request it handles
  left,        \* remaining in write_ota_body: what is still to be received
  stalled,     \* the client sends no more, without closing
  inProgress,  \* stats_->ota_in_progress
  answer,      \* the status of the last HTTP response of this process
  file,        \* the file at ota_image_path: at most one record
  tester,      \* the sysupgrade -T child; its exit status once it ended
  flasher,     \* the flashing child
  accepted,    \* history: the image that passed the test before flasher was forked
  forked,      \* history: this process has forked a flashing child
  firmware     \* the image the device runs

process == <<up, running, forked>>
handler == <<at, req, left, stalled, inProgress, answer>>
flash == <<flasher, accepted, firmware>>
vars == <<process, handler, file, tester, flash>>

Request == [image : Images,
            size : 1 .. MaxSize,   \* Content-Length
            validate : BOOLEAN]    \* ?validate=1
File(i, missing) == {[image |-> i, missing |-> missing]}
NoFile == {}
Whole(images) == {i \in images : file = File(i, 0)}

Init ==
  /\ up = FALSE /\ running = FALSE /\ forked = FALSE
  /\ at = "idle" /\ req \in Request /\ left = 0 /\ stalled = FALSE
  /\ inProgress = FALSE /\ answer = 0
  /\ file = NoFile /\ tester = "none"
  /\ flasher = "none" /\ accepted = {} /\ firmware \in Images

-----------------------------------------------------------------------------
Busy == up /\ at # "idle"
At(l) == Busy /\ at = l
Goto(l) == at' = l /\ UNCHANGED <<inProgress, answer>>
Finish(status) == at' = "idle" /\ inProgress' = FALSE /\ answer' = status

-----------------------------------------------------------------------------
(* A request arrives in web.tick(): the guards of handle_ota_upload.       *)

\* A tick goes on to the next client after a signal, too: tick() does not look
\* at g_running.  How many clients that can be is WebServer's StopsWithinTick.
Arrive == up /\ at = "idle"

Reject(status) ==
  /\ answer' = status
  /\ UNCHANGED <<process, at, req, left, stalled, inProgress, file, tester, flash>>

\* OTA is disabled, or the token is wrong, missing or the default one.
RejectForbidden == Arrive /\ Reject(403)

RejectBusy == Arrive /\ inProgress /\ Reject(409)

\* Nothing to upload, or more than ota_max_upload_bytes.
RejectSize == Arrive /\ ~inProgress /\ (Reject(400) \/ Reject(413))

\* Mutant: the check for an upgrade in progress is lost.
BeginUploadAnyway ==
  /\ Arrive
  /\ req' \in Request
  /\ inProgress' = TRUE
  /\ at' = "open" /\ left' = 0 /\ stalled' = FALSE
  /\ UNCHANGED <<process, answer, file, tester, flash>>

BeginUpload ==
  /\ Arrive /\ ~inProgress
  /\ req' \in Request
  /\ inProgress' = TRUE
  /\ at' = "open" /\ left' = 0 /\ stalled' = FALSE
  /\ UNCHANGED <<process, answer, file, tester, flash>>

-----------------------------------------------------------------------------
(* write_ota_body.                                                         *)

\* open(O_WRONLY | O_CREAT | O_TRUNC): the same file, emptied.
OpenImage ==
  /\ At("open")
  /\ \/ /\ Goto("body")
        /\ left' = req.size /\ file' = File(req.image, req.size)
     \/ Finish(500) /\ UNCHANGED <<left, file>>
  /\ UNCHANGED <<process, req, stalled, tester, flash>>

\* Mutant: recv may deliver more than is missing.
WriteBodyUnbounded ==
  /\ At("body") /\ ~stalled
  /\ left' \in left - 2 .. left - 1
  /\ file' = File(req.image, left')
  /\ UNCHANGED <<process, at, req, stalled, inProgress, answer, tester, flash>>

\* The part that came with the headers, then each recv: never more than is
\* missing.
WriteBody ==
  /\ At("body") /\ ~stalled
  /\ left' \in 0 .. left - 1
  /\ file' = File(req.image, left')
  /\ UNCHANGED <<process, at, req, stalled, inProgress, answer, tester, flash>>

\* Mutant: recv has no timeout.
BodyFailsNoTimeout ==
  /\ At("body") /\ ~stalled
  /\ Finish(500)
  /\ UNCHANGED <<process, req, left, stalled, file, tester, flash>>

\* The client closes, or the 15 s of SO_RCVTIMEO pass; the disk is full; fsync
\* fails.  What was written stays.
BodyFails ==
  /\ At("body")
  /\ Finish(500)
  /\ UNCHANGED <<process, req, left, stalled, file, tester, flash>>

BodyComplete ==
  /\ At("body") /\ left = 0
  /\ Goto("test")
  /\ UNCHANGED <<process, req, left, stalled, file, tester, flash>>

-----------------------------------------------------------------------------
(* run_sysupgrade_test and what follows from its result.                   *)

StartTest ==
  /\ At("test")
  /\ \/ Goto("wait") /\ tester' = "running" /\ UNCHANGED file
     \/ Finish(400) /\ file' = NoFile /\ UNCHANGED tester
  /\ UNCHANGED <<process, req, left, stalled, flash>>

\* Mutant: the flag stays up when the validation fails.
TestFailedKeepsFlag ==
  /\ At("wait") /\ tester = "failed"
  /\ at' = "idle" /\ answer' = 400
  /\ tester' = "none" /\ file' = NoFile
  /\ UNCHANGED <<process, req, left, stalled, inProgress, flash>>

TestFailed ==
  /\ At("wait") /\ tester = "failed"
  /\ Finish(400)
  /\ tester' = "none" /\ file' = NoFile
  /\ UNCHANGED <<process, req, left, stalled, flash>>

Validated ==
  /\ At("wait") /\ tester = "passed" /\ req.validate
  /\ Finish(200)
  /\ tester' = "none" /\ file' = NoFile
  /\ UNCHANGED <<process, req, left, stalled, flash>>

\* Mutant: ?validate=1 only changes the response.
ToFlashAlways ==
  /\ At("wait") /\ tester = "passed"
  /\ Goto("flash")
  /\ tester' = "none"
  /\ UNCHANGED <<process, req, left, stalled, file, flash>>

ToFlash ==
  /\ At("wait") /\ tester = "passed" /\ ~req.validate
  /\ Goto("flash")
  /\ tester' = "none"
  /\ UNCHANGED <<process, req, left, stalled, file, flash>>

-----------------------------------------------------------------------------
(* start_sysupgrade_flash.  The flag stays up once the child is forked.    *)

StartFlash ==
  /\ At("flash")
  /\ \/ /\ at' = "idle" /\ answer' = 202 /\ UNCHANGED inProgress
        /\ flasher' = "sleeping" /\ accepted' = {req.image} /\ forked' = TRUE
     \/ Finish(500) /\ UNCHANGED <<flasher, accepted, forked>>
  /\ UNCHANGED <<up, running, req, left, stalled, file, tester, firmware>>

-----------------------------------------------------------------------------
(* The world around the handler.                                           *)

ClientStalls ==
  /\ At("body") /\ ~stalled /\ stalled' = TRUE
  /\ UNCHANGED <<process, at, req, left, inProgress, answer, file, tester, flash>>

\* sysupgrade -T accepts a whole valid image only, and may fail for any.
TesterEnds ==
  /\ tester = "running"
  /\ tester' = "failed" \/ (tester' = "passed" /\ Whole(Valid) # {})
  /\ UNCHANGED <<process, handler, file, flash>>

FlasherWakes ==
  /\ flasher = "sleeping" /\ flasher' = "flashing"
  /\ UNCHANGED <<process, handler, file, tester, accepted, firmware>>

\* exec fails, or sysupgrade refuses or dies.  Nobody learns of it.
FlasherDies ==
  /\ flasher # "none" /\ flasher' = "none" /\ accepted' = {}
  /\ UNCHANGED <<process, handler, file, tester, firmware>>

\* sysupgrade checks the file it finds, writes it and reboots; the file was in
\* /tmp, which is memory.
FlashAndReboot ==
  /\ flasher = "flashing"
  /\ firmware' \in Whole(Valid)
  /\ flasher' = "none" /\ accepted' = {}
  /\ up' = FALSE /\ running' = FALSE /\ forked' = FALSE
  /\ at' = "idle" /\ inProgress' = FALSE /\ tester' = "none" /\ file' = NoFile
  /\ UNCHANGED <<req, left, stalled, answer>>

HandleSignal ==
  /\ up /\ running /\ running' = FALSE
  /\ UNCHANGED <<up, forked, handler, file, tester, flash>>

Stop ==
  /\ up /\ ~running /\ at = "idle"
  /\ up' = FALSE
  /\ UNCHANGED <<running, forked, handler, file, tester, flash>>

Crash ==
  /\ up /\ up' = FALSE
  /\ UNCHANGED <<running, forked, handler, file, tester, flash>>

\* Mutant: the children do not hold the listening socket.
PortIsFreeAlways == TRUE

\* The next process binds the address and port of the one before.
PortIsFree == tester # "running" /\ flasher = "none"

\* main() with web_enabled: a start while the port is taken ends at once.
Start ==
  /\ ~up /\ PortIsFree
  /\ up' = TRUE /\ running' = TRUE /\ forked' = FALSE
  /\ at' = "idle" /\ inProgress' = FALSE /\ answer' = 0
  /\ tester' = "none"
  /\ UNCHANGED <<req, left, stalled, file, flash>>

-----------------------------------------------------------------------------
Handler ==
  \/ OpenImage \/ WriteBody \/ BodyFails \/ BodyComplete
  \/ StartTest \/ TestFailed \/ Validated \/ ToFlash \/ StartFlash

Next ==
  \/ RejectForbidden \/ RejectBusy \/ RejectSize \/ BeginUpload
  \/ Handler
  \/ ClientStalls \/ TesterEnds \/ FlasherWakes \/ FlasherDies \/ FlashAndReboot
  \/ HandleSignal \/ Stop \/ Crash \/ Start

Spec == Init /\ [][Next]_vars

\* The daemon keeps executing, recv times out, and sysupgrade -T ends.  The
\* last is an assumption on sysupgrade: the code waits for it without a limit.
FairSpec == Spec /\ WF_vars(Handler) /\ WF_vars(TesterEnds)

-----------------------------------------------------------------------------
(* Properties.                                                             *)

\* Every variable keeps its type: in particular remaining never goes below
\* zero and there is one image file at most.
TypeOK ==
  /\ up \in BOOLEAN /\ running \in BOOLEAN /\ forked \in BOOLEAN
  /\ at \in {"idle", "open", "body", "test", "wait", "flash"}
  /\ req \in Request /\ left \in 0 .. MaxSize /\ stalled \in BOOLEAN
  /\ inProgress \in BOOLEAN /\ answer \in {0, 200, 202, 400, 403, 409, 413, 500}
  /\ file = NoFile \/ \E i \in Images, n \in 0 .. MaxSize : file = File(i, n)
  /\ tester \in {"none", "running", "passed", "failed"}
  /\ flasher \in {"none", "sleeping", "flashing"}
  /\ accepted \subseteq Images
  /\ firmware \in Images

\* From the fork of the flashing child to its end, whatever is uploaded,
\* restarted or crashes meanwhile, the image file is the whole image that
\* passed sysupgrade -T, so what the child flashes two seconds later is what
\* was validated.
FlashesWhatWasTested ==
  flasher # "none" => \E i \in Valid : accepted = {i} /\ file = File(i, 0)

\* Between two requests ota_in_progress is up exactly when this process has
\* forked a flashing child: each error path of the handler takes it back.
FlagMeansForked == up /\ at = "idle" => (inProgress <=> forked)

\* The client is told the truth: 202 if and only if a flashing child was
\* forked for its request, and 200 only when the validated image is gone.
AnswersAreTrue ==
  [][ up' /\ Busy /\ at' = "idle" =>
        /\ answer' = 202 <=> (flasher = "none" /\ flasher' = "sleeping")
        /\ answer' = 202 => ~req.validate
        /\ answer' = 200 => req.validate /\ file' = NoFile ]_vars

Upgrade == INSTANCE FirmwareUpgrade

\* The endpoint implements FirmwareUpgrade.
UpgradesSafely == Upgrade!Spec

\* The handler waits for nothing but the end of sysupgrade -T: each other call
\* it makes ends, whatever the client does.
CanStep ==
  /\ Busy /\ ~(at = "wait" /\ tester = "running") => ENABLED <<Handler>>_vars
  /\ tester = "running" => ENABLED <<TesterEnds>>_vars

\* A request being handled is answered, or the process dies: a client that
\* stalls cannot keep the daemon for ever.
RequestEnds == Busy ~> ~Busy

\* "OTA already in progress" is said only while a flashing child lives.
BusyIsTrue == [][RejectBusy => flasher # "none"]_vars
=============================================================================
