------------------------------- MODULE LpcIsp -------------------------------
(***************************************************************************)
(* Programming the SB-Interface (src/src/lpc_isp.cpp): the image that the  *)
(* web task stages, the job that writes it from a task of its own, and the *)
(* handover of the KNX UART between that job and the stack on the main     *)
(* task (KnxLink::suspend, resume, loop in src/src/knx_link.cpp).          *)
(*                                                                         *)
(* A file is a number of chunks; the staged image is the sequence of the   *)
(* chunks stored, each with the client it came from.  loop() and the job   *)
(* have one priority on one core and preempt each other at any tick:       *)
(* between the look at the request and what loop() does about it, a job    *)
(* may end and another one ask.                                            *)
(***************************************************************************)
EXTENDS Naturals, Sequences

CONSTANTS
    Clients,     \* browsers, each with one file to upload
    Chunks,      \* chunks of a file
    Hex,         \* clients whose file is Intel Hex, its end record in the
                 \* last chunk; the others' are raw binary
    Kinds,       \* jobs asked for: "probe" "flash" "run" "fetch"
    MaxJobs,     \* bound of the model: jobs
    MaxUploads   \* bound of the model: uploads

ASSUME BoundAssumption ==
    /\ Chunks \in Nat \ {0} /\ MaxJobs \in Nat /\ MaxUploads \in Nat
    /\ Kinds \subseteq {"probe", "flash", "run", "fetch"}
    /\ Hex \subseteq Clients

JobSteps == {"idle", "ask", "wait", "giveup", "talk", "write", "restart",
             "resume", "fetch", "stage", "finish"}

VARIABLES
    main,       \* loop(): at its top, on either branch of the look at the
                \* request, at setupUart(), or in knx.loop()
    request,    \* _suspendRequest
    suspended,  \* _suspended
    port,       \* the UART: "stack" at 19200 8E1, "isp" at 115200 8N1, "closed"
    job, pc,    \* _job; where its task is
    ok,         \* _lastOk
    size,       \* what writeImage() took _imageSize to be
    done,       \* chunks written
    chip,       \* the LPC runs its "user" program or the bootloader, "isp"
    flash,      \* what is in its flash
    image,      \* _image and _imageSize
    imageOk, uploading,
    refusal,    \* g_lpcUploadError is set
    sent,       \* per client: chunks sent of the upload in progress, or none
    jobs, uploads,
    staged,     \* history: the image when the job began to write it
    muddled,    \* history: an upload was begun while a job or another upload
                \* was under way, or ended by a request that has no file
    cutEnded,   \* history: a request without a file met the chunks of an
                \* upload that was cut off
    hasty       \* history: a job asked for the port just as loop() was taking
                \* it back from the one before

link == <<main, request, suspended, port, hasty>>
work == <<job, pc, ok, size, done, jobs, staged>>
lpc == <<chip, flash>>
staging == <<image, imageOk, uploading>>
web == <<refusal, sent, uploads, muddled, cutEnded>>
vars == <<link, work, lpc, staging, web>>

None == Chunks + 1  \* no upload in progress
Freed == <<>>
Front(c, n) == [i \in 1 .. n |-> <<c, i>>]
File(c) == Front(c, Chunks)

Init ==
    /\ main = "top" /\ request = FALSE /\ suspended = FALSE /\ port = "stack"
    /\ job = "none" /\ pc = "idle" /\ ok = FALSE /\ size = 0 /\ done = 0
    /\ jobs = 0 /\ staged = Freed
    /\ chip = "user" /\ flash = Freed
    /\ image = Freed /\ imageOk = FALSE /\ uploading = FALSE
    /\ refusal = FALSE /\ sent = [c \in Clients |-> None] /\ uploads = 0
    /\ muddled = FALSE /\ cutEnded = FALSE /\ hasty = FALSE

----------------------------------------------------------------------------
(* KnxLink::loop(), on the main task: a look at the request ...              *)
Look ==
    /\ main = "top"
    /\ main' = IF request THEN "park" ELSE "unpark"
    /\ UNCHANGED <<request, suspended, port, hasty, work, lpc, staging, web>>

(* ... which, if it stands, ends the pass, the port closed once ...         *)
HandOver ==
    /\ main = "park"
    /\ suspended' = TRUE
    /\ port' = IF suspended THEN port ELSE "closed"
    /\ main' = "top"
    /\ UNCHANGED <<request, hasty, work, lpc, staging, web>>

(* ... and if not, goes on to knx.loop(), reopening the port on the way.    *)
TakeBack ==
    /\ main = "unpark"
    /\ suspended' = FALSE
    /\ main' = IF suspended THEN "reopen" ELSE "stack"
    /\ UNCHANGED <<request, port, hasty, work, lpc, staging, web>>

SetupUart ==
    /\ main = "reopen"
    /\ port' = "stack"
    /\ main' = "stack"
    /\ UNCHANGED <<request, suspended, hasty, work, lpc, staging, web>>

StackDone ==
    /\ main = "stack" /\ main' = "top"
    /\ UNCHANGED <<request, suspended, port, hasty, work, lpc, staging, web>>

----------------------------------------------------------------------------
(* start() and startFetch(), on the web task.                               *)
StartJob ==
    /\ job = "none" /\ jobs < MaxJobs
    /\ \E kind \in Kinds :
        /\ kind = "flash" => imageOk /\ Len(image) > 0
        /\ job' = kind
        /\ pc' = IF kind = "fetch" THEN "fetch" ELSE "ask"
    /\ jobs' = jobs + 1
    /\ ok' = FALSE
    /\ UNCHANGED <<link, size, done, staged, lpc, staging, web>>

(* run(), on its own task: suspend(), which may time out ...                *)
Ask ==
    /\ pc = "ask"
    /\ request' = TRUE
    /\ hasty' = (hasty \/ (suspended /\ main = "unpark"))
    /\ pc' = "wait"
    /\ UNCHANGED <<main, suspended, port, job, ok, size, done, jobs, staged,
                   lpc, staging, web>>

GrantedUnasked == TRUE  \* mutant of Granted
Granted == suspended

Wait ==
    /\ pc = "wait"
    /\ \/ Granted /\ pc' = "talk"
       \/ ~suspended /\ pc' = "giveup"
    /\ UNCHANGED <<link, job, ok, size, done, jobs, staged, lpc, staging, web>>

GiveUp ==
    /\ pc = "giveup"
    /\ request' = FALSE
    /\ pc' = "finish"
    /\ UNCHANGED <<main, suspended, port, hasty, job, ok, size, done, jobs,
                   staged, lpc, staging, web>>

(* ... runUser() at once for RUN ...                                        *)
RunUser ==
    /\ pc = "talk" /\ job = "run"
    /\ chip' = "user"
    /\ ok' = TRUE
    /\ pc' = "resume"
    /\ UNCHANGED <<link, job, size, done, jobs, staged, flash, staging, web>>

(* ... the bootloader, which may not answer, for the others; and for FLASH  *)
(* what it needs to begin: a staged image and an erased flash ...           *)
Size == Len(image)

Talk ==
    /\ pc = "talk" /\ job # "run"
    /\ port' = "isp" /\ chip' = "isp"
    /\ \/ /\ pc' = "restart"
          /\ ok' \in IF job = "probe" THEN BOOLEAN ELSE {FALSE}
          /\ UNCHANGED <<size, done, staged, flash>>
       \/ /\ job = "flash" /\ imageOk /\ Len(image) > 0
          /\ size' = Size /\ done' = 0 /\ staged' = image
          /\ flash' = Freed
          /\ pc' = "write"
          /\ UNCHANGED ok
    /\ UNCHANGED <<main, request, suspended, hasty, job, jobs, staging, web>>

(* ... chunk by chunk, each of which the chip may refuse ...                *)
NextChunk == IF done < Len(image) THEN image[done + 1] ELSE <<"garbage", 0>>

LastMissing == done + 1 >= size  \* mutant of AllWritten
AllWritten == done = size

WriteChunk ==
    /\ pc = "write" /\ ~AllWritten
    /\ \/ /\ flash' = Append(flash, NextChunk)
          /\ done' = done + 1
          /\ UNCHANGED pc
       \/ pc' = "restart" /\ UNCHANGED <<flash, done>>
    /\ UNCHANGED <<link, job, ok, size, jobs, staged, chip, staging, web>>

(* uploadDiscard()                                                          *)
Discard == image' = Freed /\ imageOk' = FALSE /\ uploading' = FALSE

Written ==
    /\ pc = "write" /\ AllWritten
    /\ ok' = TRUE
    /\ Discard
    /\ pc' = "restart"
    /\ UNCHANGED <<link, job, size, done, jobs, staged, lpc, web>>

(* ... and however it went: runUser(), the port closed, resume().           *)
RestartChip ==
    /\ pc = "restart"
    /\ chip' = "user" /\ port' = "closed"
    /\ pc' = "resume"
    /\ UNCHANGED <<main, request, suspended, hasty, job, ok, size, done, jobs,
                   staged, flash, staging, web>>

RequestKept == TRUE  \* mutant of RequestAfter
RequestAfter == FALSE

Resume ==
    /\ pc = "resume"
    /\ request' = RequestAfter
    /\ pc' = "finish"
    /\ UNCHANGED <<main, suspended, port, hasty, job, ok, size, done, jobs,
                   staged, lpc, staging, web>>

(* fetch(), on its own task.  The manifest or the file may be unreachable;  *)
(* otherwise it goes through uploadBegin() and on to uploadEnd().           *)
MayUploadAnytime == TRUE  \* mutant of MayUpload
MayUpload == job = "none"

Download ==
    /\ pc = "fetch"
    /\ pc' \in {"stage", "finish"}
    /\ UNCHANGED <<link, job, ok, size, done, jobs, staged, lpc, staging, web>>

StageFetched ==
    /\ pc = "stage"
    /\ ok' = MayUpload
    /\ IF MayUpload
       THEN /\ image' \in {File(c) : c \in Clients}
            /\ imageOk' = TRUE /\ uploading' = FALSE
       ELSE UNCHANGED staging
    /\ pc' = "finish"
    /\ UNCHANGED <<link, job, size, done, jobs, staged, lpc, web>>

Finish ==
    /\ pc = "finish"
    /\ job' = "none" /\ pc' = "idle"
    /\ UNCHANGED <<link, ok, size, done, jobs, staged, lpc, staging, web>>

JobTask ==
    \/ Ask \/ Wait \/ GiveUp \/ RunUser \/ Talk \/ WriteChunk \/ Written
    \/ RestartChip \/ Resume \/ Download \/ StageFetched \/ Finish

----------------------------------------------------------------------------
(* /api/lpc/upload, on the web task: the first chunk calls uploadBegin();   *)
(* a chunk may turn out not to belong to an image ...                       *)
UploadFirst(c) ==
    /\ sent[c] = None /\ uploads < MaxUploads
    /\ MayUpload
    /\ image' = Append(Freed, <<c, 1>>)
    /\ imageOk' = FALSE /\ uploading' = TRUE
    /\ refusal' \in BOOLEAN
    /\ sent' = [sent EXCEPT ![c] = 1] /\ uploads' = uploads + 1
    /\ muddled' = IF \E d \in Clients \ {c} : sent[d] # None THEN TRUE
                  ELSE muddled
    /\ UNCHANGED <<link, work, lpc, cutEnded>>

UploadRefused(c) ==
    /\ sent[c] = None /\ uploads < MaxUploads
    /\ ~MayUpload
    /\ refusal' = TRUE
    /\ sent' = [sent EXCEPT ![c] = 1] /\ uploads' = uploads + 1
    /\ muddled' = TRUE
    /\ UNCHANGED <<link, work, lpc, staging, cutEnded>>

(* ... every further one uploadData(), unless an upload has failed ...      *)
UploadNext(c) ==
    /\ sent[c] < Chunks
    /\ IF ~refusal /\ uploading
       THEN /\ image' = Append(image, <<c, sent[c] + 1>>)
            /\ refusal' \in BOOLEAN
       ELSE /\ UNCHANGED image
            /\ refusal' = TRUE
    /\ sent' = [sent EXCEPT ![c] = @ + 1]
    /\ UNCHANGED <<link, work, lpc, imageOk, uploading, uploads, muddled, cutEnded>>

(* ... and the response uploadEnd(), which may refuse the file, a truncated  *)
(* hex file always, or uploadDiscard() if it does or an upload has failed.  *)
(* An image that was accepted is accepted again.                            *)
EndedUnasked == TRUE  \* mutant of Ended
Ended == image[1][1] \in Hex => \E i \in DOMAIN image : image[i][2] = Chunks

Respond ==
    \/ /\ ~refusal /\ Len(image) > 0 /\ Ended
       /\ imageOk' = TRUE /\ uploading' = FALSE
       /\ UNCHANGED image
    \/ /\ ~imageOk \/ refusal
       /\ Discard

UploadDone(c) ==
    /\ sent[c] = Chunks
    /\ Respond
    /\ sent' = [sent EXCEPT ![c] = None]
    /\ UNCHANGED <<link, work, lpc, refusal, uploads, muddled, cutEnded>>

(* The same response to a request that brings no file at all: nothing asks  *)
(* whether an upload was begun, or by whom.                                 *)
RespondUnasked ==
    /\ uploads < MaxUploads
    /\ Respond
    /\ uploads' = uploads + 1
    /\ muddled' = (muddled \/ \E c \in Clients : sent[c] # None)
    /\ cutEnded' = (cutEnded \/ (image # Freed /\ ~imageOk))
    /\ UNCHANGED <<link, work, lpc, refusal, sent>>

(* The connection is lost on the way: no response.                          *)
UploadLost(c) ==
    /\ sent[c] # None
    /\ sent' = [sent EXCEPT ![c] = None]
    /\ UNCHANGED <<link, work, lpc, staging, refusal, uploads, muddled, cutEnded>>

Upload(c) ==
    \/ UploadFirst(c) \/ UploadRefused(c) \/ UploadNext(c)
    \/ UploadDone(c) \/ UploadLost(c)

MainTask == Look \/ HandOver \/ TakeBack \/ SetupUart \/ StackDone

WebTask == StartJob \/ RespondUnasked \/ \E c \in Clients : Upload(c)

Next == MainTask \/ JobTask \/ WebTask

Spec == Init /\ [][Next]_vars

(* The scheduler gives every task its turn, and every step of a job ends by *)
(* an answer or by a timeout.                                               *)
FairSpec == Spec /\ WF_vars(MainTask) /\ WF_vars(JobTask)

----------------------------------------------------------------------------
TypeOK ==
    /\ main \in {"top", "park", "unpark", "reopen", "stack"} /\ request \in BOOLEAN
    /\ suspended \in BOOLEAN /\ port \in {"stack", "isp", "closed"}
    /\ job \in Kinds \cup {"none"} /\ pc \in JobSteps /\ ok \in BOOLEAN
    /\ size \in Nat /\ done \in 0 .. size
    /\ chip \in {"user", "isp"}
    /\ image \in Seq(Clients \X (1 .. Chunks))
    /\ imageOk \in BOOLEAN /\ uploading \in BOOLEAN /\ refusal \in BOOLEAN
    /\ {muddled, cutEnded, hasty} \subseteq BOOLEAN
    /\ sent \in [Clients -> 1 .. None]
    /\ jobs \in 0 .. MaxJobs /\ uploads \in 0 .. MaxUploads

(* The UART has one master ("the two cannot overlap"): the stack only runs  *)
(* on a port that is its own, and a job only talks while the stack is       *)
(* parked - until a job asks just as loop() takes the port back from the    *)
(* one before.  Between two jobs the port is not the job's and the LPC runs *)
(* its program, always.                                                     *)
OneMaster ==
    /\ ~hasty =>
           /\ main = "stack" => port = "stack"
           /\ pc \in {"talk", "write", "restart"} =>
                  main \in {"top", "park"} /\ suspended /\ port # "stack"
    /\ pc \in {"idle", "finish"} => port # "isp" /\ chip = "user"

(* A request to park the stack is a job's that is between suspend() and     *)
(* resume(): none outlives its job, however it ended, none is withdrawn     *)
(* under it.  What StackReturns says is left to the scheduler after that.   *)
RequestOwned ==
    request <=> pc \in {"wait", "giveup", "talk", "write", "restart", "resume"}

(* The stack is never parked for good, whatever becomes of the job.         *)
StackReturns == suspended ~> main = "stack"

(* One client's whole file; or the front of a raw binary, which nothing     *)
(* tells from a whole one, once a request without a file met a cut upload.  *)
Usable(s) ==
    \E c \in Clients :
        \/ s = File(c)
        \/ cutEnded /\ c \notin Hex /\ \E n \in 1 .. Chunks : s = Front(c, n)

(* What is accepted as the image to write is one client's whole file, as    *)
(* long as no two uploads overlap; an upload cut off is not taken for whole *)
(* unless it was raw and a request without a file ended it.                 *)
StagedWhole == imageOk /\ ~muddled => Usable(image)

(* While it is written the image stays what it was, as long as no upload is *)
(* begun under the job.                                                     *)
InUseKept ==
    (job = "flash" /\ pc = "write" /\ ~muddled) => image = staged /\ imageOk

(* A job that reports success has put exactly what was staged whole in the  *)
(* flash.                                                                   *)
FlashedWhole == (job = "flash" /\ ok /\ ~muddled) => Usable(flash)

(* "A job is running" refuses an upload, and a refused upload leaves the     *)
(* image alone that the job is writing.                                     *)
RefusedHarmless == (job = "flash" /\ pc = "write") => image = staged

=============================================================================
