----------------------------- MODULE OtaService -----------------------------
(* Firmware updates (ota_service.cpp, the upload of web_server.cpp): the    *)
(* check and the online installation, each a task of its own, uploads from  *)
(* the dashboard on the web task, the one Update object they share, the     *)
(* switch of slots, and what marks an image valid before the bootloader     *)
(* takes it back.                                                           *)
(*                                                                          *)
(* An image has Chunks chunks, each a pair of the image and a position. A   *)
(* call of the upload handler is one step: nothing preempts the web task    *)
(* while it writes. Update, otadata and the bootloader are external.        *)
EXTENDS Naturals, Sequences

CONSTANTS
  Online,        \* images of the update server, the newer ones last
  Clients,       \* who uploads from the dashboard, and the image they send
  Checks,        \* the check tasks and
  Installs,      \* the installation tasks that may run at once
  Chunks,
  MaxRequests    \* bound on requests and power cuts

ASSUME OtaAssumption ==
  /\ Chunks \in Nat \ {0} /\ Installs \cap Clients = {}
  /\ Online \cap {"none", "get"} = {}  \* the other values of checks

NoImage == "no image"
Factory == "factory"
Images == Online \cup Clients \cup {NoImage, Factory}
Slots == {0, 1}
Other(slot) == 1 - slot
Chunk(image, k) == <<image, k>>
Full(image) == [k \in 1..Chunks |-> Chunk(image, k)]

VARIABLES
  gState, gUrl, gSha256,  \* g_state, the images g_url and g_sha256 describe
  checks,                 \* task |-> "none", "get", or the image whose path it stored
  installs,               \* task |-> its step, image and chunks written
  upload,                 \* the globals of the upload handler
  clients,                \* client |-> chunks sent, digest announced, refused
  update,                 \* the Update object
  flash,                  \* slot |-> image and state in otadata
  running, boot,          \* slots
  switched,               \* the note of a deliberate switch in NVS
  stuck,                  \* history: NVS did not give it up at the last start
  started,                \* how far loop() got: "no", "looped", "proven"
  rebootDue,              \* scheduleReboot() was called
  picked,                 \* the user switched slots since the last start
  alone,                  \* who has had Update to itself since it began
  requests

onlineVars == <<gState, gUrl, gSha256, checks, installs>>
uploadVars == <<upload, clients>>
slotVars == <<flash, running, boot, switched, stuck, picked, started>>
otaVars == <<onlineVars, uploadVars, update, alone, slotVars, rebootDue, requests>>

Spend == requests < MaxRequests /\ requests' = requests + 1

NoTask == [at |-> "none", image |-> NoImage, written |-> 0]
NoUpload == [error |-> FALSE, hashFailed |-> FALSE, sha |-> NoImage, hashed |-> <<>>]
NoClient == [sent |-> 0, sha |-> NoImage, refused |-> FALSE]
NoUpdate == [on |-> FALSE, error |-> FALSE, size |-> 0, data |-> <<>>]

OtaInit ==
  /\ gState = "idle" /\ gUrl = NoImage /\ gSha256 = NoImage
  /\ checks = [c \in Checks |-> "none"]
  /\ installs = [i \in Installs |-> NoTask]
  /\ upload = NoUpload /\ clients = [c \in Clients |-> NoClient]
  /\ update = NoUpdate /\ alone = {}
  /\ flash = [s \in Slots |-> [image |-> IF s = 0 THEN Factory ELSE NoImage,
                               state |-> "undefined"]]
  /\ running = 0 /\ boot = 0 /\ switched = FALSE /\ stuck = FALSE /\ picked = FALSE
  /\ started = "no" /\ rebootDue = FALSE /\ requests = 0
---------------------------------------------------------------------------
(* Update, as the code uses it. It writes the slot that does not run, holds *)
(* back the first bytes until end(), and end() checks the image as a whole. *)
Begun(size) == [NoUpdate EXCEPT !.on = TRUE, !.size = size]
Aborted == [NoUpdate EXCEPT !.error = TRUE]
Accepts(u) == u.on /\ ~u.error /\ Len(u.data) < u.size
Written(u, chunk) ==
  IF Accepts(u) THEN [u EXCEPT !.data = Append(u.data, chunk)] ELSE Aborted
Whole(u) == u.on /\ \E image \in Images : u.data = Full(image)
ImageIn(u) == CHOOSE image \in Images : u.data = Full(image)
Ended(u) == IF ~u.on THEN u ELSE IF Whole(u) THEN NoUpdate ELSE Aborted

Touched(who) == alone' = alone \cap {who}
SlotIs(image, state) == [flash EXCEPT ![Other(running)] = [image |-> image, state |-> state]]
Overwrites == flash' = SlotIs(NoImage, flash[Other(running)].state)
Activates(image) == flash' = SlotIs(image, "new") /\ boot' = Other(running)
---------------------------------------------------------------------------
(* startCheck(), checkTask(): g_url, g_sha256 and g_state are written one   *)
(* after the other. What startCheck() asks is the status, which an          *)
(* installation may have overwritten while a check still runs.              *)
StartCheck ==
  /\ Spend
  /\ \/ gState' = "error" /\ UNCHANGED checks  \* no URL, or no task
     \/ /\ gState \notin {"checking", "installing"}
        /\ \E c \in Checks : checks[c] = "none" /\ checks' = [checks EXCEPT ![c] = "get"]
        /\ gState' = "checking"
  /\ UNCHANGED <<gUrl, gSha256, installs, uploadVars, update, alone, slotVars, rebootDue>>

CheckFailsSilently == gState
CheckFails == "error"

CheckStep(c) ==
  /\ \/ /\ checks[c] = "get" /\ checks' = [checks EXCEPT ![c] = "none"]
        /\ gState' = CheckFails
        /\ UNCHANGED <<gUrl, gSha256>>
     \/ /\ checks[c] = "get"
        /\ \E image \in Online : gUrl' = image /\ checks' = [checks EXCEPT ![c] = image]
        /\ UNCHANGED <<gState, gSha256>>
     \/ /\ checks[c] \in Online /\ checks' = [checks EXCEPT ![c] = "none"]
        /\ gSha256' = checks[c] /\ gState' \in {"available", "idle"}
        /\ UNCHANGED gUrl
  /\ UNCHANGED <<installs, uploadVars, update, alone, slotVars, rebootDue, requests>>

(* startInstall() refuses only while it says "installing".                  *)
StartInstall ==
  /\ Spend /\ gState # "installing"
  /\ \/ gState' = "error" /\ UNCHANGED installs
     \/ /\ gUrl # NoImage /\ gSha256 # NoImage
        /\ \E i \in Installs :
             /\ installs[i].at = "none"
             /\ installs' = [installs EXCEPT ![i].at = "get"]
        /\ gState' = "installing"
  /\ UNCHANGED <<gUrl, gSha256, checks, uploadVars, update, alone, slotVars, rebootDue>>

InstallFails(i) ==
  /\ gState' = "error" /\ installs' = [installs EXCEPT ![i] = NoTask]
  /\ UNCHANGED <<flash, boot>>

InstallGoesOn(i, task) ==
  installs' = [installs EXCEPT ![i] = task] /\ UNCHANGED gState

InstallGet(i) ==
  /\ installs[i].at = "get"
  /\ \/ InstallFails(i)
     \/ /\ InstallGoesOn(i, [at |-> "begin", image |-> gUrl, written |-> 0])
        /\ UNCHANGED <<flash, boot>>
  /\ UNCHANGED <<update, alone>>

InstallBegin(i) ==
  /\ installs[i].at = "begin"
  /\ \/ InstallFails(i) /\ UNCHANGED <<update, alone>>
     \/ ~update.on /\ InstallFails(i) /\ update' = Aborted /\ Touched(i)
     \/ /\ ~update.on /\ update' = Begun(Chunks) /\ alone' = {i}
        /\ InstallGoesOn(i, [installs[i] EXCEPT !.at = "write"])
        /\ UNCHANGED <<flash, boot>>

InstallWrite(i) ==
  LET task == installs[i]
      now == Written(update, Chunk(task.image, task.written + 1)) IN
  /\ task.at = "write" /\ task.written < Chunks
  /\ Touched(i)
  /\ \/ InstallFails(i) /\ update' = Aborted
     \/ /\ Accepts(update) /\ update' = now /\ Overwrites /\ UNCHANGED boot
        /\ InstallGoesOn(i, [task EXCEPT !.written = task.written + 1])

DigestAsFetched(i) == TRUE
DigestMatches(i) == installs[i].image = gSha256

InstallEnd(i) ==
  /\ installs[i].at = "write" /\ installs[i].written = Chunks
  /\ Touched(i)
  /\ IF DigestMatches(i) /\ Whole(update)
     THEN /\ update' = Ended(update) /\ Activates(ImageIn(update))
          /\ gState' = "done"
          /\ installs' = [installs EXCEPT ![i].at = "restart"]
     ELSE InstallFails(i) /\ update' = IF DigestMatches(i) THEN Ended(update) ELSE Aborted

InstallStep(i) ==
  /\ InstallGet(i) \/ InstallBegin(i) \/ InstallWrite(i) \/ InstallEnd(i)
  /\ UNCHANGED <<gUrl, gSha256, checks, uploadVars, running, switched, stuck, picked,
                 started, rebootDue, requests>>
---------------------------------------------------------------------------
(* The upload handler. The answer follows the last chunk within one call of *)
(* the web task, but the tasks above may run in between.                    *)
WebFree == \A c \in Clients : clients[c].sent < Chunks

UploadRefused(c) ==
  /\ Spend /\ WebFree /\ clients[c].sent = 0
  /\ upload' = [NoUpload EXCEPT !.error = TRUE]
  /\ clients' = [clients EXCEPT ![c] = [NoClient EXCEPT !.sent = 1, !.refused = TRUE]]
  /\ Touched(c)
  /\ UNCHANGED <<onlineVars, update, slotVars, rebootDue>>

(* An Update that is running is aborted, whoever it belongs to.             *)
UploadBegins(c, sha) ==
  /\ Spend /\ WebFree /\ clients[c].sent = 0
  /\ clients' = [clients EXCEPT ![c] = [NoClient EXCEPT !.sent = 1, !.sha = sha]]
  /\ \/ /\ update' = Aborted /\ upload' = [NoUpload EXCEPT !.error = TRUE]
        /\ UNCHANGED flash
     \/ /\ update' = Written(Begun(Chunks + 1), Chunk(c, 1)) /\ Overwrites
        /\ upload' = [NoUpload EXCEPT !.sha = sha,
                         !.hashed = IF sha = NoImage THEN <<>> ELSE <<Chunk(c, 1)>>]
  /\ alone' = {c}
  /\ UNCHANGED <<onlineVars, running, boot, switched, stuck, picked, started, rebootDue>>

HashFails(hashed) == upload.sha # NoImage /\ hashed # Full(upload.sha)

(* A write that does not fit leaves the reason and aborts.                  *)
UploadNext(c) ==
  LET sent == clients[c].sent + 1
      goes == Accepts(update)
      chunk == Chunk(c, sent)
      now == IF update.on /\ ~update.error THEN Written(update, chunk) ELSE update
      hashed == IF goes /\ upload.sha # NoImage THEN Append(upload.hashed, chunk)
                ELSE upload.hashed
      ends == sent = Chunks /\ now.on
      failed == ends /\ HashFails(hashed)
  IN
  /\ WebFree /\ sent \in 2..Chunks
  /\ clients' = [clients EXCEPT ![c].sent = sent]
  /\ upload' = [sha |-> upload.sha, hashed |-> hashed,
                hashFailed |-> upload.hashFailed \/ failed,
                error |-> upload.error \/ (update.on /\ ~goes)]
  /\ update' = IF failed THEN Aborted ELSE IF ends THEN Ended(now) ELSE now
  /\ IF ends /\ ~failed /\ Whole(now) THEN Activates(ImageIn(now))
     ELSE IF goes THEN Overwrites /\ UNCHANGED boot ELSE UNCHANGED <<flash, boot>>
  /\ Touched(c)
  /\ UNCHANGED <<onlineVars, running, switched, stuck, picked, started, rebootDue, requests>>

Accepted == ~upload.error /\ ~upload.hashFailed /\ ~update.error

Answer(c) ==
  /\ clients[c].sent = Chunks
  /\ rebootDue' = (rebootDue \/ (~clients[c].refused /\ Accepted))
  /\ clients' = [clients EXCEPT ![c] = NoClient]
  /\ UNCHANGED <<onlineVars, upload, update, alone, slotVars, requests>>

(* A request without a file is answered from what the last one left.        *)
AnswerEmpty ==
  /\ Spend /\ WebFree /\ Accepted
  /\ rebootDue' = TRUE
  /\ UNCHANGED <<onlineVars, uploadVars, update, alone, slotVars>>

UploadLost(c) ==
  /\ clients[c].sent \in 1..(Chunks - 1)
  /\ clients' = [clients EXCEPT ![c] = NoClient]
  /\ UNCHANGED <<onlineVars, upload, update, alone, slotVars, rebootDue, requests>>
---------------------------------------------------------------------------
(* switchPartition(): the note may fail to be stored.                       *)
SwitchPartition ==
  /\ Spend /\ WebFree
  /\ flash[Other(running)].image # NoImage
  /\ flash[Other(running)].state # "aborted"
  /\ flash' = SlotIs(flash[Other(running)].image, "new") /\ boot' = Other(running)
  /\ switched' \in {switched, TRUE} /\ picked' = TRUE
  /\ rebootDue' = TRUE
  /\ UNCHANGED <<onlineVars, uploadVars, update, alone, running, stuck, started>>

(* The bootloader takes back an image still pending, and starts the other   *)
(* slot when the one it should start holds none.                            *)
Judged(s) == IF flash[s].state = "pending" THEN "aborted" ELSE flash[s].state
Bootable(s) == flash[s].image # NoImage /\ Judged(s) # "aborted"
BootSlot == IF Bootable(boot) \/ flash[Other(boot)].image = NoImage THEN boot ELSE Other(boot)

Reboots ==
  /\ running' = BootSlot /\ boot' = BootSlot
  /\ flash' = [s \in Slots |->
       [flash[s] EXCEPT !.state = IF s = BootSlot /\ Judged(s) = "new" THEN "pending"
                                  ELSE Judged(s)]]
  /\ gState' = "idle" /\ gUrl' = NoImage /\ gSha256' = NoImage
  /\ checks' = [c \in Checks |-> "none"]
  /\ installs' = [i \in Installs |-> NoTask]
  /\ upload' = NoUpload /\ clients' = [c \in Clients |-> NoClient]
  /\ update' = NoUpdate /\ alone' = {}
  /\ started' = "no" /\ rebootDue' = FALSE
  /\ UNCHANGED <<switched, stuck, picked>>

OtaRestart ==
  /\ rebootDue \/ \E i \in Installs : installs[i].at = "restart"
  /\ Reboots /\ UNCHANGED requests

OtaPowerCut == Spend /\ Reboots

(* loop(): the note of the switch, then the proving time. A namespace that  *)
(* cannot be opened leaves the note unread, a removal that fails is not     *)
(* noticed.                                                                 *)
NoteKept == switched
NoteTaken == FALSE
MarksValid ==
  flash' = [flash EXCEPT ![running].state = IF flash[running].state = "pending"
                                            THEN "valid" ELSE flash[running].state]

FirstLoop(opened, removed) ==
  /\ started = "no"
  /\ switched' = IF opened /\ removed THEN NoteTaken ELSE switched
  /\ stuck' = (switched /\ ~(opened /\ removed)) /\ picked' = FALSE
  /\ IF switched /\ opened THEN MarksValid /\ started' = "proven"
     ELSE started' = "looped" /\ UNCHANGED flash
  /\ UNCHANGED <<onlineVars, uploadVars, update, alone, running, boot, rebootDue, requests>>

Proven ==
  /\ started = "looped" /\ started' = "proven" /\ MarksValid
  /\ UNCHANGED <<onlineVars, uploadVars, update, alone, running, boot, switched, stuck, picked,
                 rebootDue, requests>>

Upload(c) ==
  \/ UploadRefused(c) \/ UploadNext(c) \/ Answer(c) \/ UploadLost(c)
  \/ \E sha \in {NoImage, c, Factory} : UploadBegins(c, sha)

OtaNext ==
  \/ StartCheck \/ StartInstall \/ SwitchPartition \/ AnswerEmpty
  \/ \E c \in Checks : CheckStep(c)
  \/ \E i \in Installs : InstallStep(i)
  \/ \E c \in Clients : Upload(c)
  \/ \E opened, removed \in BOOLEAN : FirstLoop(opened, removed)
  \/ OtaRestart \/ OtaPowerCut \/ Proven

(* FreeRTOS runs the tasks of both; each of their waits has a timeout.      *)
OtaFair ==
  /\ \A c \in Checks : WF_otaVars(CheckStep(c))
  /\ \A i \in Installs : WF_otaVars(InstallStep(i))
OtaSpec == OtaInit /\ [][OtaNext]_otaVars /\ OtaFair
---------------------------------------------------------------------------
(* Who had Update to itself activates only what its digest stands for, even *)
(* if the manifest changed meanwhile (ota_service.cpp:405-408,              *)
(* web_server.cpp:1420-1421).                                               *)
Activated == flash'[Other(running)].image \notin {NoImage, flash[Other(running)].image}
ActivatesVerified ==
  [][Activated =>
       \A who \in alone \cap alone' :
         LET image == flash'[Other(running)].image IN
         IF who \in Installs THEN image = gSha256
         ELSE image = who /\ clients[who].sha \in {NoImage, who}]_otaVars

(* An image is spared its proving time only in the first start after the    *)
(* user picked a slot (ota_service.cpp:125-133, 539-543), or at the next    *)
(* after one at which NVS did not give up the note of that.                 *)
ValidEarned ==
  [][\A s \in Slots : flash[s].state = "pending" /\ flash'[s].state = "valid"
        => started = "looped" \/ picked \/ stuck]_otaVars

(* The status says that something is under way only while a task is that    *)
(* will say how it ended, whichever of them wrote it last.                  *)
StatusOwned ==
  /\ gState = "checking" => \E c \in Checks : checks[c] # "none"
  /\ gState = "installing" => \E i \in Installs : installs[i].at \in {"get", "begin", "write"}

(* The dashboard never polls for ever: a check and an installation end.     *)
StatusSettles ==
  /\ gState = "checking" ~> gState # "checking"
  /\ gState = "installing" ~> gState # "installing"
=============================================================================
