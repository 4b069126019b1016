---------------------------- MODULE LpcIspProofs ----------------------------
(***************************************************************************)
(* Proofs about LpcIsp: the handover of the UART for any clients, files,   *)
(* jobs and uploads; the image until uploads overlap each other or a job.  *)
(***************************************************************************)
EXTENDS LpcIsp, TLAPS

(* The handover.  While a job is past suspend() its request stands, so that *)
(* loop() finds it at its next look; unless the job was hasty, loop() has   *)
(* not looked yet or is on the parking branch.  Who is parked does not own  *)
(* the port, and who is not does, or is about to open it.                   *)
Requested == pc \in {"wait", "talk", "write", "restart", "resume"} => request
Places == suspended => main \in {"top", "park", "unpark"}
Parked ==
    ~hasty =>
        /\ pc \in {"talk", "write", "restart", "resume"} => suspended
        /\ pc \in {"wait", "talk", "write", "restart", "resume"} /\ suspended =>
               main # "unpark"
        /\ suspended => port # "stack"
        /\ ~suspended /\ main # "reopen" => port = "stack"
Restarted ==
    pc \notin {"write", "restart"} => port # "isp" /\ chip = "user"
NoJob == job = "none" => pc = "idle"
Flags == request \in BOOLEAN /\ suspended \in BOOLEAN /\ hasty \in BOOLEAN

Handover == Flags /\ Requested /\ Places /\ Parked /\ Restarted /\ NoJob

(* The strengthening says what the property asks.                           *)
LEMMA HandoverEnough == Handover => OneMaster
BY DEF Handover, Flags, Requested, Places, Parked, Restarted, NoJob, OneMaster

(* The loop of the main task keeps the handover.                            *)
LEMMA HandoverMain == Handover /\ MainTask => Handover'
<1> SUFFICES ASSUME Handover, MainTask PROVE Handover'
  OBVIOUS
<1> USE DEF Handover, Flags, Requested, Places, Parked, Restarted, NoJob, work, lpc
<1>1. CASE Look
  BY <1>1 DEF Look
<1>2. CASE HandOver
  BY <1>2 DEF HandOver
<1>3. CASE TakeBack
  BY <1>3 DEF TakeBack
<1>4. CASE SetupUart \/ StackDone
  BY <1>4 DEF SetupUart, StackDone
<1>5. QED
  BY <1>1, <1>2, <1>3, <1>4 DEF MainTask

(* So do the steps of a job.                                                *)
LEMMA HandoverJob == Handover /\ JobTask => Handover'
<1> SUFFICES ASSUME Handover, JobTask PROVE Handover'
  OBVIOUS
<1> USE DEF Handover, Flags, Requested, Places, Parked, Restarted, NoJob
<1>1. CASE Ask
  BY <1>1 DEF Ask, lpc
<1>2. CASE Wait
  BY <1>2 DEF Wait, Granted, link, lpc
<1>3. CASE GiveUp
  BY <1>3 DEF GiveUp, lpc
<1>4. CASE RunUser
  BY <1>4 DEF RunUser, link
<1>5. CASE Talk
  BY <1>5 DEF Talk
<1>6. CASE WriteChunk
  BY <1>6 DEF WriteChunk, link
<1>7. CASE Written
  BY <1>7 DEF Written, link, lpc
<1>8. CASE RestartChip
  BY <1>8 DEF RestartChip
<1>9. CASE Resume
  BY <1>9 DEF Resume, RequestAfter, lpc
<1>10. CASE Download
  BY <1>10 DEF Download, link, lpc
<1>11. CASE StageFetched
  BY <1>11 DEF StageFetched, link, lpc
<1>12. CASE Finish
  BY <1>12 DEF Finish, link, lpc
<1>13. QED
  BY <1>1, <1>2, <1>3, <1>4, <1>5, <1>6, <1>7, <1>8, <1>9, <1>10, <1>11,
     <1>12 DEF JobTask

(* A job is only started when there is none; the uploads touch neither.     *)
LEMMA HandoverWeb == Handover /\ WebTask => Handover'
<1> SUFFICES ASSUME Handover, WebTask PROVE Handover'
  OBVIOUS
<1>1. CASE StartJob
  <2>1. PICK kind \in Kinds :
            job' = kind /\ pc' = IF kind = "fetch" THEN "fetch" ELSE "ask"
    BY <1>1 DEF StartJob
  <2>2. kind # "none"
    BY BoundAssumption
  <2>3. QED
    BY <1>1, <2>1, <2>2
       DEF StartJob, Handover, Flags, Requested, Places, Parked, Restarted, NoJob,
           link, lpc
<1>2. CASE RespondUnasked \/ \E c \in Clients : Upload(c)
  <2>1. UNCHANGED <<link, work, lpc>>
    BY <1>2 DEF RespondUnasked, Upload, UploadFirst, UploadRefused, UploadNext,
                UploadDone, UploadLost
  <2>2. QED
    BY <2>1 DEF Handover, Flags, Requested, Places, Parked, Restarted, NoJob, link,
                work, lpc
<1>3. QED
  BY <1>1, <1>2 DEF WebTask

(* The UART has one master, for any number of clients, chunks and jobs,     *)
(* however often suspend() times out and wherever the steps of a job fall   *)
(* between those of loop(), until a job asks while loop() takes the port    *)
(* back (knx_link.cpp:618-654, 940-961).                                    *)
THEOREM UartHasOneMaster == Spec => []OneMaster
<1>1. Init => Handover
  BY DEF Init, Handover, Flags, Requested, Places, Parked, Restarted, NoJob
<1>2. Handover /\ [Next]_vars => Handover'
  <2> SUFFICES ASSUME Handover, [Next]_vars PROVE Handover'
    OBVIOUS
  <2>1. CASE Next
    BY <2>1, HandoverMain, HandoverJob, HandoverWeb DEF Next
  <2>2. CASE UNCHANGED vars
    BY <2>2 DEF vars, link, work, lpc, Handover, Flags, Requested, Places, Parked,
                Restarted, NoJob
  <2>3. QED
    BY <2>1, <2>2
<1>3. QED
  BY <1>1, <1>2, HandoverEnough, PTL DEF Spec

(* The request that parks the stack is owned: it stands exactly while a job *)
(* is between suspend() and resume(), however each step of it went.         *)
THEOREM RequestIsOwned == Spec => []RequestOwned
<1> USE DEF RequestOwned, NoJob
<1>1. Init => RequestOwned /\ NoJob
  BY DEF Init
<1>2. RequestOwned /\ NoJob /\ [Next]_vars => RequestOwned' /\ NoJob'
  <2> SUFFICES ASSUME RequestOwned, NoJob, [Next]_vars PROVE RequestOwned' /\ NoJob'
    OBVIOUS
  <2>1. CASE UNCHANGED <<request, pc, job>>
    BY <2>1
  <2>2. MainTask \/ UNCHANGED vars => UNCHANGED <<request, pc, job>>
    BY DEF MainTask, Look, HandOver, TakeBack, SetupUart, StackDone, vars, link, work
  <2>3. ASSUME NEW c \in Clients, Upload(c) PROVE UNCHANGED <<request, pc, job>>
    BY <2>3 DEF Upload, UploadFirst, UploadRefused, UploadNext, UploadDone, UploadLost, link, work
  <2>4. CASE StartJob
    <3>1. job' \in Kinds /\ pc' \in {"fetch", "ask"} /\ UNCHANGED request /\ pc = "idle"
      BY <2>4 DEF StartJob, link
    <3>2. job' # "none"
      BY <3>1, BoundAssumption
    <3>3. QED
      BY <3>1, <3>2
  <2>5. CASE Ask
    BY <2>5 DEF Ask
  <2>6. CASE GiveUp \/ Resume
    BY <2>6 DEF GiveUp, Resume, RequestAfter
  <2>7. CASE Wait \/ RunUser \/ Talk
    BY <2>7 DEF Wait, RunUser, Talk, link
  <2>8. CASE WriteChunk \/ Written \/ RestartChip
    BY <2>8 DEF WriteChunk, Written, RestartChip, link
  <2>9. CASE Download \/ StageFetched \/ Finish
    BY <2>9 DEF Download, StageFetched, Finish, link
  <2>10. CASE RespondUnasked
    BY <2>1, <2>10 DEF RespondUnasked, link, work
  <2>11. QED
    BY <2>1, <2>2, <2>3, <2>4, <2>5, <2>6, <2>7, <2>8, <2>9, <2>10
       DEF Next, JobTask, WebTask
<1>3. QED
  BY <1>1, <1>2, PTL DEF Spec
----------------------------------------------------------------------------
(* Types.                                                                   *)
Typed == TypeOK /\ NoJob

(* The empty buffer, and a chunk behind what is staged.                     *)
LEMMA FreedTyped == Freed \in Seq(Clients \X (1 .. Chunks))
BY DEF Freed
LEMMA ChunkTyped ==
    ASSUME NEW s \in Seq(Clients \X (1 .. Chunks)), NEW c \in Clients,
           NEW n \in 1 .. Chunks
    PROVE  Append(s, <<c, n>>) \in Seq(Clients \X (1 .. Chunks))
<1>1. <<c, n>> \in Clients \X (1 .. Chunks)
  OBVIOUS
<1>2. QED
  BY <1>1

(* Nothing is staged and nothing runs.                                      *)
LEMMA TypedInit == Init => Typed
<1> SUFFICES ASSUME Init PROVE Typed
  OBVIOUS
<1>1. sent \in [Clients -> 1 .. None]
  BY BoundAssumption DEF Init, None
<1>2. /\ size \in Nat /\ done \in 0 .. size
      /\ jobs \in 0 .. MaxJobs /\ uploads \in 0 .. MaxUploads
  BY BoundAssumption DEF Init
<1>3. QED
  BY <1>1, <1>2, FreedTyped DEF Init, Typed, TypeOK, NoJob, JobSteps

(* The main task only touches its own members and the port.                 *)
LEMMA TypedMain == Typed /\ MainTask => Typed'
<1> SUFFICES ASSUME Typed, MainTask PROVE Typed'
  OBVIOUS
<1>1. main' \in {"top", "park", "unpark", "reopen", "stack"} /\ request' \in BOOLEAN
      /\ suspended' \in BOOLEAN /\ port' \in {"stack", "isp", "closed"}
      /\ hasty' \in BOOLEAN
  BY DEF MainTask, Look, HandOver, TakeBack, SetupUart, StackDone, Typed, TypeOK
<1>2. UNCHANGED <<work, lpc, staging, web>>
  BY DEF MainTask, Look, HandOver, TakeBack, SetupUart, StackDone
<1>3. QED
  BY <1>1, <1>2 DEF Typed, TypeOK, NoJob, work, lpc, staging, web

(* A job is started.                                                        *)
LEMMA TypedStart == Typed /\ StartJob => Typed'
<1> SUFFICES ASSUME Typed, StartJob PROVE Typed'
  OBVIOUS
<1>1. job' \in Kinds /\ pc' \in JobSteps /\ ok' = FALSE
  BY DEF StartJob, JobSteps
<1>2. jobs' \in 0 .. MaxJobs
  BY BoundAssumption DEF StartJob, Typed, TypeOK
<1>3. UNCHANGED <<link, size, done, staged, lpc, staging, web>>
  BY DEF StartJob
<1>4. job' # "none"
  BY <1>1, BoundAssumption
<1>5. QED
  BY <1>1, <1>2, <1>3, <1>4 DEF Typed, TypeOK, NoJob, link, lpc, staging, web

(* A job goes on or ends.                                                   *)
LEMMA TypedJob == Typed /\ JobTask => Typed'
<1> SUFFICES ASSUME Typed, JobTask PROVE Typed'
  OBVIOUS
<1>1. UNCHANGED <<main, suspended, jobs, web>>
  BY DEF JobTask, Ask, Wait, GiveUp, RunUser, Talk, WriteChunk, Written,
         RestartChip, Resume, Download, StageFetched, Finish, link, work
<1>2. /\ request' \in BOOLEAN /\ port' \in {"stack", "isp", "closed"}
      /\ hasty' \in BOOLEAN
      /\ chip' \in {"user", "isp"} /\ ok' \in BOOLEAN
  BY DEF JobTask, Ask, Wait, GiveUp, RunUser, Talk, WriteChunk, Written,
         RestartChip, Resume, Download, StageFetched, Finish, link, work, lpc,
         RequestAfter, MayUpload, Typed, TypeOK
<1>3. pc' \in JobSteps /\ job' \in Kinds \cup {"none"} /\ NoJob'
  BY DEF JobTask, Ask, Wait, GiveUp, RunUser, Talk, WriteChunk, Written,
         RestartChip, Resume, Download, StageFetched, Finish, work,
         Typed, TypeOK, NoJob, JobSteps
<1>4. size' \in Nat /\ done' \in 0 .. size'
  <2>1. CASE WriteChunk
    <3>1. size \in Nat /\ done \in 0 .. size /\ done # size /\ size' = size
      BY <2>1 DEF WriteChunk, AllWritten, Typed, TypeOK
    <3>2. done' \in {done, done + 1}
      BY <2>1 DEF WriteChunk
    <3>3. QED
      BY <3>1, <3>2
  <2>2. CASE Talk
    <3>1. Len(image) \in Nat
      BY DEF Typed, TypeOK
    <3>2. CASE UNCHANGED <<size, done>>
      BY <3>2 DEF Typed, TypeOK
    <3>3. CASE size' = Len(image) /\ done' = 0
      BY <3>1, <3>3
    <3>4. QED
      BY <2>2, <3>2, <3>3 DEF Talk, Size
  <2>3. CASE UNCHANGED <<size, done>>
    BY <2>3 DEF Typed, TypeOK
  <2>4. QED
    BY <2>1, <2>2, <2>3
    DEF JobTask, Ask, Wait, GiveUp, RunUser, Written, RestartChip, Resume,
        Download, StageFetched, Finish, work
<1>5. /\ image' \in Seq(Clients \X (1 .. Chunks))
      /\ imageOk' \in BOOLEAN /\ uploading' \in BOOLEAN
  <2>1. CASE Written
    BY <2>1, FreedTyped DEF Written, Discard
  <2>2. CASE UNCHANGED staging
    BY <2>2 DEF staging, Typed, TypeOK
  <2>3. CASE StageFetched
    BY <2>2, <2>3 DEF StageFetched, MayUpload, Typed, NoJob
  <2>4. QED
    BY <2>1, <2>2, <2>3
    DEF JobTask, Ask, Wait, GiveUp, RunUser, Talk, WriteChunk, RestartChip,
        Resume, Download, Finish
<1>6. QED
  BY <1>1, <1>2, <1>3, <1>4, <1>5 DEF Typed, TypeOK, web

(* An upload goes on.                                                       *)
LEMMA TypedUpload ==
    ASSUME NEW c \in Clients, Typed, Upload(c)
    PROVE  Typed'
<1>1. sent \in [Clients -> 1 .. None] /\ None = Chunks + 1 /\ Chunks \in Nat \ {0}
  BY BoundAssumption DEF Typed, TypeOK, None
<1>2. UNCHANGED <<link, work, lpc>>
  BY DEF Upload, UploadFirst, UploadRefused, UploadNext, UploadDone, UploadLost
<1>3. sent' \in [Clients -> 1 .. None]
  <2>1. PICK n \in 1 .. None : sent' = [sent EXCEPT ![c] = n]
    <3>1. CASE UploadNext(c)
      <4>1. sent[c] + 1 \in 1 .. None
        BY <1>1, <3>1 DEF UploadNext
      <4>2. QED
        BY <3>1, <4>1 DEF UploadNext
    <3>2. 1 \in 1 .. None /\ None \in 1 .. None
      BY <1>1
    <3>3. QED
      BY <3>1, <3>2
      DEF Upload, UploadFirst, UploadRefused, UploadDone, UploadLost
  <2>2. QED
    BY <1>1, <2>1
<1>4. uploads' \in 0 .. MaxUploads
  <2>1. uploads \in 0 .. MaxUploads
    BY DEF Typed, TypeOK
  <2>2. uploads' = uploads \/ (uploads < MaxUploads /\ uploads' = uploads + 1)
    BY DEF Upload, UploadFirst, UploadRefused, UploadNext, UploadDone, UploadLost
  <2>3. QED
    BY <2>1, <2>2, BoundAssumption
<1>5. image' \in Seq(Clients \X (1 .. Chunks))
  <2>1. image \in Seq(Clients \X (1 .. Chunks))
    BY DEF Typed, TypeOK
  <2>2. CASE UploadFirst(c)
    BY <1>1, <2>2, FreedTyped, ChunkTyped, 1 \in 1 .. Chunks
    DEF UploadFirst
  <2>3. CASE UploadNext(c)
    <3>1. sent[c] + 1 \in 1 .. Chunks
      BY <1>1, <2>3 DEF UploadNext
    <3>2. image' = image \/ image' = Append(image, <<c, sent[c] + 1>>)
      BY <2>3 DEF UploadNext
    <3>3. QED
      BY <2>1, <3>1, <3>2, ChunkTyped
  <2>4. CASE UploadRefused(c) \/ UploadDone(c) \/ UploadLost(c)
    BY <2>1, <2>4, FreedTyped
    DEF UploadRefused, UploadDone, UploadLost, Respond, Discard, staging
  <2>5. QED
    BY <2>2, <2>3, <2>4 DEF Upload
<1>6. /\ imageOk' \in BOOLEAN /\ uploading' \in BOOLEAN
      /\ refusal' \in BOOLEAN /\ muddled' \in BOOLEAN /\ cutEnded' \in BOOLEAN
  BY DEF Upload, UploadFirst, UploadRefused, UploadNext, UploadDone, UploadLost,
         Respond, Discard, staging, Typed, TypeOK
<1>7. QED
  BY <1>2, <1>3, <1>4, <1>5, <1>6 DEF Typed, TypeOK, NoJob, link, work, lpc

(* A response to a request without a file.                                  *)
LEMMA TypedRespond == Typed /\ RespondUnasked => Typed'
<1> SUFFICES ASSUME Typed, RespondUnasked PROVE Typed'
  OBVIOUS
<1>1. /\ image' \in Seq(Clients \X (1 .. Chunks)) /\ imageOk' \in BOOLEAN
      /\ uploading' \in BOOLEAN
  BY FreedTyped DEF RespondUnasked, Respond, Discard, Typed, TypeOK
<1>2. uploads' \in 0 .. MaxUploads
  <2>1. uploads \in 0 .. MaxUploads /\ uploads < MaxUploads /\ uploads' = uploads + 1
    BY DEF RespondUnasked, Typed, TypeOK
  <2>2. QED
    BY <2>1, BoundAssumption
<1>3. muddled' \in BOOLEAN /\ cutEnded' \in BOOLEAN
  BY DEF RespondUnasked, Typed, TypeOK
<1>4. UNCHANGED <<link, work, lpc, refusal, sent>>
  BY DEF RespondUnasked
<1>5. QED
  BY <1>1, <1>2, <1>3, <1>4 DEF Typed, TypeOK, NoJob, link, work, lpc

(* Every step keeps the types.                                              *)
LEMMA TypedNext == Typed /\ [Next]_vars => Typed'
<1> SUFFICES ASSUME Typed, [Next]_vars PROVE Typed'
  OBVIOUS
<1>1. CASE Next
  BY <1>1, TypedMain, TypedStart, TypedJob, TypedUpload, TypedRespond DEF Next, WebTask
<1>2. CASE UNCHANGED vars
  BY <1>2 DEF vars, link, work, lpc, staging, web, Typed, TypeOK, NoJob
<1>3. QED
  BY <1>1, <1>2

(* Type correctness: whatever clients do to each other and to a job, the     *)
(* staged image is made of their chunks and a job writes no more of them    *)
(* than it counted at its start.                                            *)
THEOREM TypeCorrect == Spec => []TypeOK
<1>1. Typed => TypeOK
  BY DEF Typed
<1>2. QED
  BY <1>1, TypedInit, TypedNext, PTL DEF Spec
----------------------------------------------------------------------------
(* The image.                                                               *)

(* An empty sequence is the front of every file.                            *)
LEMMA FrontEmpty == ASSUME NEW c PROVE Front(c, 0) = Freed
BY DEF Front, Freed

(* A front is a sequence of its length, with the chunks in place.           *)
LEMMA FrontIsSeq ==
    ASSUME NEW c \in Clients, NEW n \in 0 .. Chunks
    PROVE  /\ Front(c, n) \in Seq(Clients \X (1 .. Chunks))
           /\ Len(Front(c, n)) = n
           /\ \A i \in 1 .. n : Front(c, n)[i] = <<c, i>>
BY BoundAssumption DEF Front

(* The next chunk behind a front makes the next front.                      *)
LEMMA FrontNext ==
    ASSUME NEW c \in Clients, NEW n \in Nat, n < Chunks
    PROVE  Append(Front(c, n), <<c, n + 1>>) = Front(c, n + 1)
<1> DEFINE s == Append(Front(c, n), <<c, n + 1>>)
<1>1. Front(c, n) \in Seq(Clients \X (1 .. Chunks)) /\ Len(Front(c, n)) = n
  BY FrontIsSeq, BoundAssumption
<1>2. s \in Seq(Clients \X (1 .. Chunks)) /\ Len(s) = n + 1
  BY <1>1, BoundAssumption
<1>3. ASSUME NEW i \in 1 .. n + 1 PROVE s[i] = <<c, i>>
  <2>1. CASE i = n + 1
    BY <1>1, <2>1
  <2>2. CASE i # n + 1
    <3>1. i \in 1 .. n /\ s[i] = Front(c, n)[i]
      BY <1>1, <2>2
    <3>2. Front(c, n)[i] = <<c, i>>
      BY <3>1 DEF Front
    <3>3. QED
      BY <3>1, <3>2
  <2>3. QED
    BY <2>1, <2>2
<1>4. Front(c, n + 1) \in Seq(Clients \X (1 .. Chunks)) /\ Len(Front(c, n + 1)) = n + 1
  BY FrontIsSeq, BoundAssumption
<1>5. \A i \in 1 .. n + 1 : s[i] = Front(c, n + 1)[i]
  BY <1>3 DEF Front
<1>6. QED
  BY <1>2, <1>4, <1>5

(* A file is the front of all its chunks.                                   *)
LEMMA FileIsFront == ASSUME NEW c PROVE File(c) = Front(c, Chunks)
BY DEF File, Front

(* What is usable as an image is usable whatever requests come without a    *)
(* file: the history only grows.                                            *)
LEMMA UsableStays ==
    ASSUME NEW s, Usable(s), cutEnded => cutEnded'
    PROVE  \E c \in Clients :
               \/ s = File(c)
               \/ cutEnded' /\ c \notin Hex /\ \E n \in 1 .. Chunks : s = Front(c, n)
BY DEF Usable

(* What is usable is the front of some client's file.                       *)
LEMMA UsableIsFront ==
    ASSUME NEW s, Usable(s)
    PROVE  \E c \in Clients, n \in 1 .. Chunks : s = Front(c, n)
BY FileIsFront, BoundAssumption DEF Usable

(* What is staged: an accepted image is usable and no upload is in          *)
(* progress; the one that is and has not failed has put its chunks in       *)
(* order; and whatever an upload has left, unless it failed, is the front   *)
(* of one file.                                                             *)
Staged ==
    /\ imageOk => /\ ~refusal
                  /\ \A c \in Clients : sent[c] = None
                  /\ Usable(image)
    /\ \A c \in Clients :
           sent[c] # None /\ ~refusal => uploading /\ image = Front(c, sent[c])
    /\ \A c, d \in Clients : sent[c] # None /\ sent[d] # None => c = d
    /\ ~refusal /\ image # Freed =>
           \E c \in Clients, n \in 1 .. Chunks : image = Front(c, n)

(* A job to write an image has one from its start to its last chunk, and    *)
(* the flash holds what has been written of it.                             *)
Loaded ==
    /\ job = "flash" /\ image = staged
    /\ \E c \in Clients, n \in 1 .. Chunks :
           image = Front(c, n) /\ size = n /\ flash = Front(c, done)
Writing ==
    /\ job = "flash" /\ pc \in {"ask", "wait", "talk", "write"} =>
           imageOk /\ ~ok
    /\ pc = "write" => Loaded
    /\ job = "flash" /\ ok => Usable(flash)

Image == ~muddled => Staged /\ Writing

(* The strengthening says what the three properties ask.                    *)
LEMMA ImageEnough == Image => StagedWhole /\ InUseKept /\ FlashedWhole
BY DEF Image, Staged, Writing, Loaded, StagedWhole, InUseKept, FlashedWhole

(* Nothing is staged and nothing runs.                                      *)
LEMMA ImageInit == Init => Image
BY DEF Init, Image, Staged, Writing

(* The main task does not touch the image.                                  *)
LEMMA ImageMain == Image /\ MainTask => Image'
<1> SUFFICES ASSUME Image, MainTask PROVE Image'
  OBVIOUS
<1>1. UNCHANGED <<work, lpc, staging, web>>
  BY DEF MainTask, Look, HandOver, TakeBack, SetupUart, StackDone
<1>2. QED
  BY <1>1 DEF Image, Staged, Writing, Loaded, Usable, work, lpc, staging, web

(* A job is started with a whole image or does not need one.                *)
LEMMA ImageStart == Image /\ StartJob => Image'
<1> SUFFICES ASSUME Image, StartJob PROVE Image'
  OBVIOUS
<1>1. /\ job' = "flash" => imageOk
      /\ pc' # "write" /\ ok' = FALSE
      /\ UNCHANGED <<size, done, staged, lpc, staging, web>>
  BY DEF StartJob
<1>2. QED
  BY <1>1 DEF Image, Staged, Writing, Usable, lpc, staging, web

(* Steps of a job that write neither the flash nor the staged image, and    *)
(* report no success: the job goes on or it ends.                           *)
LEMMA ImageJobAside ==
    ASSUME Image, Ask \/ Wait \/ GiveUp \/ RestartChip \/ Resume
                  \/ Download \/ Finish
    PROVE  Image'
<1>1. UNCHANGED <<ok, size, done, jobs, staged, flash, staging, web>>
  BY DEF Ask, Wait, GiveUp, RestartChip, Resume, Download, Finish, lpc, work
<1>2. /\ pc' # "write"
      /\ job' = job \/ (job' = "none" /\ pc' = "idle")
      /\ pc' \in {"ask", "wait", "talk"} => pc \in {"ask", "wait"}
  BY DEF Ask, Wait, GiveUp, RestartChip, Resume, Download, Finish
<1>3. QED
  BY <1>1, <1>2 DEF Image, Staged, Writing, Usable, staging, web

(* RUN has nothing to do with the image; a file fetched while a job runs,   *)
(* the job that fetches it, is refused.                                     *)
LEMMA ImageRunFetch ==
    ASSUME Typed, Image, RunUser \/ StageFetched
    PROVE  Image'
<1>1. UNCHANGED <<size, done, jobs, staged, flash, web, job, staging>>
  BY DEF RunUser, StageFetched, Typed, NoJob, MayUpload, link, work, lpc
<1>2. pc' \in {"resume", "finish"} /\ (job = "flash" => ok' = FALSE)
  BY DEF RunUser, StageFetched, MayUpload
<1>3. QED
  BY <1>1, <1>2 DEF Image, Staged, Writing, Usable, staging, web

(* Talking to the bootloader begins to write the image, or does not.        *)
LEMMA ImageTalk == Image /\ Talk => Image'
<1> SUFFICES ASSUME Image, Talk, ~muddled' PROVE Staged' /\ Writing'
  BY DEF Image
<1>1. UNCHANGED <<job, staging, web>> /\ pc = "talk"
  BY DEF Talk
<1>2. Staged /\ Writing
  BY <1>1 DEF Image, web
<1>3. Staged'
  BY <1>1, <1>2 DEF Staged, Usable, staging, web
<1>4. CASE pc' = "restart" /\ (job = "flash" => ok' = FALSE)
  BY <1>1, <1>2, <1>3, <1>4 DEF Writing
<1>5. CASE /\ job = "flash" /\ size' = Size /\ done' = 0 /\ staged' = image
           /\ flash' = Freed /\ pc' = "write" /\ ok' = ok
  <2>1. imageOk /\ ~ok
    BY <1>1, <1>2, <1>5 DEF Writing
  <2>2. PICK c \in Clients, n \in 1 .. Chunks : image = Front(c, n)
    BY <1>2, <2>1, UsableIsFront DEF Staged
  <2>3. size' = n
    BY <1>5, <2>2, FrontIsSeq, BoundAssumption DEF Size
  <2>4. flash' = Front(c, done')
    BY <1>5, FrontEmpty
  <2>5. image' = Front(c, n) /\ image' = staged' /\ job' = "flash"
    BY <1>1, <1>5, <2>2 DEF staging
  <2>6. Loaded'
    BY <2>3, <2>4, <2>5 DEF Loaded
  <2>7. QED
    BY <1>1, <1>3, <1>5, <2>1, <2>6 DEF Writing, staging
<1>6. QED
  BY <1>3, <1>4, <1>5 DEF Talk

(* The next chunk goes behind those already in the flash.                   *)
LEMMA ImageWriteChunk == Typed /\ Image /\ WriteChunk => Image'
<1> SUFFICES ASSUME Typed, Image, WriteChunk, ~muddled' PROVE Staged' /\ Writing'
  BY DEF Image
<1>1. /\ UNCHANGED <<job, ok, size, staged, staging, web>>
      /\ pc = "write" /\ ~AllWritten
  BY DEF WriteChunk
<1>2. Staged /\ Writing /\ Loaded /\ job = "flash" /\ imageOk /\ ~ok
  BY <1>1 DEF Image, Writing, Loaded, web
<1>3. Staged'
  BY <1>1, <1>2 DEF Staged, Usable, staging, web
<1>4. CASE pc' = "restart"
  BY <1>1, <1>2, <1>3, <1>4 DEF Writing
<1>5. CASE flash' = Append(flash, NextChunk) /\ done' = done + 1 /\ pc' = pc
  <2>1. PICK c \in Clients, n \in 1 .. Chunks :
            image = Front(c, n) /\ size = n /\ flash = Front(c, done)
    BY <1>2 DEF Loaded
  <2>2. done \in Nat /\ done < n /\ n \in 0 .. Chunks /\ done < Chunks
    BY <1>1, <2>1, BoundAssumption DEF AllWritten, Typed, TypeOK
  <2>3. Len(image) = n /\ image[done + 1] = <<c, done + 1>>
    BY <2>1, <2>2, FrontIsSeq, done + 1 \in 1 .. n
  <2>4. NextChunk = <<c, done + 1>>
    BY <2>2, <2>3 DEF NextChunk
  <2>5. flash' = Front(c, done')
    BY <1>5, <2>1, <2>2, <2>4, FrontNext
  <2>6. image' = Front(c, n) /\ image' = staged' /\ size' = n
    BY <1>1, <1>2, <2>1 DEF staging, Loaded
  <2>7. Loaded'
    BY <1>1, <1>2, <2>5, <2>6 DEF Loaded
  <2>8. QED
    BY <1>1, <1>2, <1>3, <1>5, <2>7 DEF Writing, staging
<1>6. QED
  BY <1>3, <1>4, <1>5 DEF WriteChunk

(* After the last chunk the flash holds the image, which is freed.          *)
LEMMA ImageWritten == Image /\ Written => Image'
<1> SUFFICES ASSUME Image, Written, ~muddled' PROVE Staged' /\ Writing'
  BY DEF Image
<1>1. /\ UNCHANGED <<job, lpc, web>>
      /\ pc = "write" /\ pc' = "restart" /\ done = size
      /\ imageOk' = FALSE /\ image' = Freed
  BY DEF Written, Discard, AllWritten
<1>2. Staged /\ Loaded /\ imageOk
  BY <1>1 DEF Image, Writing, Loaded, web
<1>3. flash = image /\ Usable(image)
  BY <1>1, <1>2 DEF Loaded, Staged
<1>4. \A d \in Clients : sent'[d] = None
  BY <1>1, <1>2 DEF Staged, web
<1>5. Staged'
  BY <1>1, <1>4 DEF Staged, None
<1>6. Usable(flash)'
  BY <1>1, <1>3 DEF lpc, web, Usable
<1>7. Writing'
  BY <1>1, <1>6 DEF Writing
<1>8. QED
  BY <1>5, <1>7

(* Every step of a job.                                                     *)
LEMMA ImageJob == Typed /\ Image /\ JobTask => Image'
BY ImageJobAside, ImageRunFetch, ImageTalk, ImageWriteChunk, ImageWritten
   DEF JobTask

(* An upload, none of which begins while a job or another upload is under    *)
(* way: a job that has its image finds no upload in progress.               *)
LEMMA ImageUpload ==
    ASSUME NEW c \in Clients, Typed, Image, Upload(c)
    PROVE  Image'
<1> SUFFICES ASSUME ~muddled' PROVE Staged' /\ Writing'
  BY DEF Image
<1>1. sent \in [Clients -> 1 .. None] /\ None = Chunks + 1 /\ Chunks \in Nat \ {0}
  BY BoundAssumption DEF Typed, TypeOK, None
<1>2. UNCHANGED <<job, pc, ok, size, done, staged, flash, cutEnded>> /\ ~muddled
  <2>1. muddled \in BOOLEAN
    BY DEF Typed, TypeOK
  <2>2. UNCHANGED <<job, pc, ok, size, done, staged, flash, cutEnded>>
    BY DEF Upload, UploadFirst, UploadRefused, UploadNext, UploadDone, UploadLost,
           work, lpc
  <2>3. muddled' \in {TRUE, muddled}
    BY DEF Upload, UploadFirst, UploadRefused, UploadNext, UploadDone, UploadLost
  <2>4. QED
    BY <2>1, <2>2, <2>3
<1>3. Staged /\ Writing
  BY <1>2 DEF Image
<1> DEFINE Safe == /\ pc # "write"
                   /\ job = "flash" => pc \notin {"ask", "wait", "talk"}
<1>4. ASSUME Safe PROVE Writing'
  BY <1>2, <1>3, <1>4, UsableStays DEF Writing, Usable
<1>5. sent[c] # None => ~imageOk /\ Safe
  BY <1>3 DEF Staged, Writing, Loaded
<1>6. CASE UploadFirst(c)
  <2>1. /\ image' = Append(Freed, <<c, 1>>) /\ imageOk' = FALSE
        /\ uploading' = TRUE /\ job = "none"
        /\ sent' = [sent EXCEPT ![c] = 1]
        /\ \A d \in Clients \ {c} : sent[d] = None
    BY <1>6, <1>2 DEF UploadFirst, MayUpload
  <2>2. image' = Front(c, 1)
    <3>1. Append(Front(c, 0), <<c, 0 + 1>>) = Front(c, 0 + 1)
      BY <1>1, FrontNext
    <3>2. Front(c, 0) = Freed /\ 0 + 1 = 1
      BY FrontEmpty
    <3>3. QED
      BY <2>1, <3>1, <3>2
  <2>3. \A d \in Clients : sent'[d] = IF d = c THEN 1 ELSE None
    BY <1>1, <2>1
  <2>4. 1 \in 1 .. Chunks
    BY <1>1
  <2>5. Staged'
    BY <2>1, <2>2, <2>3, <2>4 DEF Staged, None
  <2>6. Safe
    BY <2>1 DEF Typed, NoJob
  <2>7. QED
    BY <1>4, <2>5, <2>6
<1>7. CASE UploadNext(c)
  <2>1. /\ sent[c] \in Nat \ {0} /\ sent[c] < Chunks /\ sent[c] # None
        /\ sent' = [sent EXCEPT ![c] = @ + 1]
        /\ UNCHANGED <<imageOk, uploading>>
    BY <1>1, <1>7 DEF UploadNext
  <2>2. \A d \in Clients \ {c} : sent[d] = None
    BY <1>3, <2>1 DEF Staged
  <2>3. \A d \in Clients : sent'[d] = IF d = c THEN sent[c] + 1 ELSE None
    BY <1>1, <2>1, <2>2
  <2>4. ~refusal' => uploading' /\ image' = Front(c, sent[c] + 1)
    <3> SUFFICES ASSUME ~refusal'
                 PROVE  uploading' /\ image' = Front(c, sent[c] + 1)
      OBVIOUS
    <3>1. ~refusal /\ uploading /\ image' = Append(image, <<c, sent[c] + 1>>)
      BY <1>7 DEF UploadNext
    <3>2. image = Front(c, sent[c])
      BY <1>3, <2>1, <3>1 DEF Staged
    <3>3. QED
      BY <2>1, <3>1, <3>2, FrontNext
  <2>5. ~imageOk' /\ Safe
    BY <1>5, <2>1
  <2>6. sent[c] + 1 \in 1 .. Chunks
    BY <1>1, <2>1
  <2>7. Staged'
    BY <2>3, <2>4, <2>5, <2>6 DEF Staged, None
  <2>8. QED
    BY <1>4, <2>5, <2>7
<1>8. CASE UploadDone(c)
  <2>1. /\ sent[c] = Chunks /\ sent[c] # None
        /\ sent' = [sent EXCEPT ![c] = None]
        /\ Respond /\ refusal' = refusal
    BY <1>1, <1>8 DEF UploadDone
  <2>2. \A d \in Clients : sent'[d] = None
    BY <1>1, <1>3, <2>1 DEF Staged
  <2>3. ASSUME ~refusal /\ imageOk' = TRUE /\ image' = image PROVE Staged'
    <3>1. image' = File(c)
      BY <1>3, <2>1, <2>3, FileIsFront DEF Staged
    <3>2. image' = Front(c, Chunks) /\ Chunks \in 1 .. Chunks
      BY <1>1, <3>1, FileIsFront
    <3>3. Usable(image)'
      BY <3>1 DEF Usable, File
    <3>4. QED
      BY <2>1, <2>2, <2>3, <3>2, <3>3 DEF Staged, None
  <2>4. ASSUME image' = Freed /\ imageOk' = FALSE PROVE Staged'
    BY <2>2, <2>4 DEF Staged, None
  <2>5. Staged'
    BY <2>1, <2>3, <2>4 DEF Respond, Discard
  <2>6. QED
    BY <1>4, <1>5, <2>1, <2>5
<1>9. CASE UploadLost(c)
  <2>1. /\ sent[c] # None /\ sent' = [sent EXCEPT ![c] = None]
        /\ UNCHANGED <<staging, refusal>>
    BY <1>9 DEF UploadLost
  <2>2. \A d \in Clients : sent'[d] = None
    BY <1>1, <1>3, <2>1 DEF Staged
  <2>3. ~imageOk' /\ Safe
    BY <1>5, <2>1 DEF staging
  <2>4. Staged'
    BY <1>3, <2>1, <2>2, <2>3 DEF Staged, None, staging
  <2>5. QED
    BY <1>4, <2>3, <2>4
<1>10. ~UploadRefused(c)
  BY DEF UploadRefused
<1>11. QED
  BY <1>6, <1>7, <1>8, <1>9, <1>10 DEF Upload

(* A request without a file, while no upload is in progress: an image that  *)
(* was accepted stays; what a cut upload left is refused if it is a hex     *)
(* file's, and counted if it is not.                                        *)
LEMMA ImageRespond == Typed /\ Image /\ RespondUnasked => Image'
<1> SUFFICES ASSUME Typed, Image, RespondUnasked, ~muddled' PROVE Staged' /\ Writing'
  BY DEF Image
<1>1. /\ UNCHANGED <<job, pc, ok, size, done, staged, flash, refusal, sent>>
      /\ ~muddled /\ Respond /\ (cutEnded => cutEnded')
      /\ \A c \in Clients : sent[c] = None
      /\ image # Freed /\ ~imageOk => cutEnded'
  BY DEF RespondUnasked, work, lpc
<1>2. Staged /\ Writing
  BY <1>1 DEF Image
<1>3. CASE /\ ~refusal /\ Len(image) > 0 /\ Ended
           /\ imageOk' = TRUE /\ image' = image
  <2>1. image # Freed
    BY <1>3 DEF Freed
  <2>2. PICK c \in Clients, n \in 1 .. Chunks : image = Front(c, n)
    BY <1>2, <1>3, <2>1 DEF Staged
  <2>3. Usable(image)'
    <3>1. CASE imageOk
      <4>1. Usable(image)
        BY <1>2, <3>1 DEF Staged
      <4>2. QED
        BY <1>1, <1>3, <4>1, UsableStays DEF Usable, File, Front
    <3>2. CASE ~imageOk /\ c \in Hex
      <4>1. image[1] = <<c, 1>> /\ DOMAIN image = 1 .. n
        BY <2>2, BoundAssumption DEF Front
      <4>2. PICK i \in 1 .. n : image[i][2] = Chunks
        BY <1>3, <3>2, <4>1 DEF Ended
      <4>3. image[i] = <<c, i>>
        BY <2>2, <4>2 DEF Front
      <4>4. i = Chunks
        BY <4>2, <4>3
      <4>5. n = Chunks
        BY <4>2, <4>4, BoundAssumption
      <4>6. image' = File(c)
        BY <1>3, <2>2, <4>5, FileIsFront
      <4>7. QED
        BY <4>6 DEF Usable, File
    <3>3. CASE ~imageOk /\ c \notin Hex
      BY <1>1, <1>3, <2>1, <2>2, <3>3 DEF Usable, Front
    <3>4. QED
      BY <3>1, <3>2, <3>3
  <2>4. Staged'
    BY <1>1, <1>3, <2>2, <2>3 DEF Staged, None, Front
  <2>5. Writing'
    BY <1>1, <1>2, <1>3, UsableStays DEF Writing, Loaded, Usable, File, Front
  <2>6. QED
    BY <2>4, <2>5
<1>4. CASE (~imageOk \/ refusal) /\ image' = Freed /\ imageOk' = FALSE
  <2>1. ~imageOk
    BY <1>2, <1>4 DEF Staged
  <2>2. Staged'
    BY <1>1, <1>4 DEF Staged, None
  <2>3. pc # "write" /\ (job = "flash" => pc \notin {"ask", "wait", "talk"})
    BY <1>2, <2>1 DEF Writing, Loaded
  <2>4. Writing'
    BY <1>1, <1>2, <2>3, UsableStays DEF Writing, Usable, File, Front
  <2>5. QED
    BY <2>2, <2>4
<1>5. QED
  BY <1>1, <1>3, <1>4 DEF Respond, Discard

(* The image stays in order until uploads overlap each other or a job.      *)
LEMMA ImageAlways == Spec => []Image
<1>1. Typed /\ Image /\ [Next]_vars => Image'
  <2> SUFFICES ASSUME Typed, Image, [Next]_vars PROVE Image'
    OBVIOUS
  <2>1. CASE Next
    BY <2>1, ImageMain, ImageJob, ImageStart, ImageUpload, ImageRespond
       DEF Next, WebTask
  <2>2. CASE UNCHANGED vars
    BY <2>2 DEF vars, work, lpc, staging, web, Image, Staged, Writing, Loaded, Usable
  <2>3. QED
    BY <2>1, <2>2
<1>2. QED
  BY <1>1, TypedInit, TypedNext, ImageInit, PTL DEF Spec

(* What is accepted as the image is a whole file, of any length; or, after  *)
(* a request without a file met a cut upload, the front of a raw one.       *)
THEOREM AcceptedIsWhole == Spec => []StagedWhole
BY ImageAlways, ImageEnough, PTL

(* While it is written the image stays what it was.                         *)
THEOREM InUseIsKept == Spec => []InUseKept
BY ImageAlways, ImageEnough, PTL

(* Reported success: the flash holds what may be accepted as an image.      *)
THEOREM SuccessIsWhole == Spec => []FlashedWhole
BY ImageAlways, ImageEnough, PTL

=============================================================================
