------------------------------ MODULE HwConfig ------------------------------
(***************************************************************************)
(* The hardware profile (src/src/hw_config.cpp): the profile the device    *)
(* runs on, the one in NVS, the handover of a change that needs no         *)
(* restart, and the guard that drops a profile the device keeps crashing   *)
(* with.  applyJson() and resetToDefaults() run on the web task, begin()   *)
(* and loop() on the main task; the power may go at every step.            *)
(*                                                                         *)
(* A profile has five parts: the scalar keys, the arrays of buttons and    *)
(* LEDs, their counts, the arrays of assignments, and their counts.        *)
(***************************************************************************)
EXTENDS Naturals

CONSTANTS
    Values,       \* what a part may be
    Defaults,     \* the profile compiled in
    Blank,        \* HwProfile()
    Old,          \* a profile stored by a firmware with another list layout
    Valid,        \* the profiles validate() accepts
    Crashing,     \* the profiles the device crashes with before it is proven
    Patches,      \* the documents the dashboard may post
    MaxEvents     \* bound of the model: requests and power cuts

Fields == {"keys", "btns", "btnc", "bact", "bacc"}
Wiring == {"keys", "btns", "btnc"}
Blobs == {"btns", "bact"}
Lists == Fields \ {"keys"}
Profiles == [Fields -> Values]
MAX_BOOT_ATTEMPTS == 2

ASSUME ProfileAssumption ==
    /\ {Defaults, Blank, Old} \subseteq Profiles
    /\ Defaults \in Valid \ Crashing
ASSUME PatchAssumption ==
    \A patch \in Patches :
        /\ DOMAIN patch \subseteq Fields
        /\ \A f \in DOMAIN patch : patch[f] \in Values
ASSUME BoundAssumption == MaxEvents \in Nat

VARIABLES
    nvs,           \* namespace hwcfg: the parts, iover, set, boots
    active, stored, pending,
    hasStored, applyPending, rebootPending, counterCleared,
    fallback,
    main,          \* "boot", "drop", "run", "copy", "rest"
    web,           \* step of the request, "idle" between requests
    p, live,       \* locals of applyJson()
    blind,         \* history: why the RAM copy may differ from the lists in NVS
    whole,         \* history: no store() was cut short since the last complete one
    tries,         \* history: boots with the stored profile since it was
                   \* written or proven
    events

flags == <<hasStored, applyPending, rebootPending, counterCleared>>
profiles == <<active, stored, pending>>
request == <<web, p, live>>
history == <<blind, whole, tries>>
vars == <<nvs, profiles, flags, fallback, main, request, history, events>>

Fallbacks == {"none", "unconfigured", "invalid", "crashloop"}
Steps == Fields \cup
    {"idle", "read", "open", "iover", "set", "boots", "ram", "pend", "pendrest", "flag"}
Nvs == [kept : Profiles, iover : BOOLEAN, set : BOOLEAN, boots : 0..MAX_BOOT_ATTEMPTS]
Erased == [kept |-> Defaults, iover |-> FALSE, set |-> FALSE, boots |-> 0]
Updated == [kept |-> Old, iover |-> FALSE, set |-> TRUE, boots |-> 0]

(* load(): a missing key reads as the default, lists of a foreign layout    *)
(* are the default ones.                                                    *)
Loaded == [f \in Fields |->
              IF f \in Lists /\ ~nvs.iover THEN Defaults[f] ELSE nvs.kept[f]]

(* A structure is copied in the order of its members.                       *)
Front == Fields \ {"bact"}
Copied(to, from, parts) == [f \in Fields |-> IF f \in parts THEN from[f] ELSE to[f]]

(* A device that was never configured, or one after an update.              *)
Init ==
    /\ nvs \in {Erased, Updated}
    /\ active = Blank /\ stored = Blank /\ pending = Blank
    /\ hasStored = FALSE /\ applyPending = FALSE
    /\ rebootPending = FALSE /\ counterCleared = FALSE
    /\ fallback = "unconfigured"
    /\ main = "boot" /\ web = "idle" /\ p = Blank /\ live = FALSE
    /\ blind = {} /\ whole = TRUE /\ tries = 0 /\ events = 0

----------------------------------------------------------------------------
(* Startup on the main task: begin() and load().                            *)
Started(profile, why) ==
    /\ active' = profile /\ fallback' = why
    /\ main' = "run"
    /\ UNCHANGED <<pending, applyPending, rebootPending, counterCleared, request,
                   whole, events>>

BeginUnconfigured ==
    /\ main = "boot" /\ ~nvs.set
    /\ Started(Defaults, "unconfigured")
    /\ stored' = Defaults /\ hasStored' = FALSE
    /\ blind' = IF ~nvs.iover THEN {} ELSE IF whole THEN {"dropped"} ELSE {"cut"}
    /\ UNCHANGED <<nvs, tries>>

AttemptsLeft == nvs.boots < MAX_BOOT_ATTEMPTS
AttemptUncounted == nvs.boots  \* mutant of Attempt
Attempt == nvs.boots + 1

BeginStored ==
    /\ main = "boot" /\ nvs.set /\ AttemptsLeft
    /\ nvs' = [nvs EXCEPT !.boots = Attempt]
    /\ stored' = Loaded /\ hasStored' = TRUE
    /\ IF Loaded \in Valid THEN Started(Loaded, "none") ELSE Started(Defaults, "invalid")
    /\ blind' = {} /\ tries' = IF tries < MAX_BOOT_ATTEMPTS THEN tries + 1 ELSE tries

(* The profile failed too often: it is unmarked, then the counter cleared.  *)
BeginDrop ==
    /\ main = "boot" /\ nvs.set /\ ~AttemptsLeft
    /\ nvs' = [nvs EXCEPT !.set = FALSE]
    /\ stored' = Loaded /\ hasStored' = TRUE
    /\ main' = "drop" /\ blind' = {}
    /\ UNCHANGED <<active, pending, applyPending, rebootPending, counterCleared,
                   fallback, request, whole, tries, events>>

Dropped ==
    /\ main = "drop"
    /\ nvs' = [nvs EXCEPT !.boots = 0]
    /\ Started(Defaults, "crashloop")
    /\ hasStored' = FALSE
    /\ UNCHANGED <<stored, blind, tries>>

Begin == BeginUnconfigured \/ BeginStored \/ BeginDrop \/ Dropped

----------------------------------------------------------------------------
(* loop() on the main task: the handover, and the proof after 20 seconds.   *)
TakeChange ==
    /\ main = "run" /\ applyPending
    /\ applyPending' = FALSE
    /\ main' = "copy"
    /\ UNCHANGED <<nvs, profiles, hasStored, rebootPending, counterCleared, fallback,
                   request, history, events>>

CopyFront ==
    /\ main = "copy"
    /\ active' = Copied(active, pending, Front)
    /\ main' = "rest"
    /\ UNCHANGED <<nvs, stored, pending, flags, fallback, request, history, events>>

FlagLate == FALSE  \* mutant of FlagAfterCopy
FlagAfterCopy == applyPending

CopyRest ==
    /\ main = "rest"
    /\ active' = Copied(active, pending, Fields \ Front)
    /\ applyPending' = FlagAfterCopy
    /\ main' = "run"
    /\ UNCHANGED <<nvs, stored, pending, hasStored, rebootPending, counterCleared,
                   fallback, request, history, events>>

Prove ==
    /\ main = "run" /\ ~counterCleared
    /\ active \notin Crashing
    /\ counterCleared' = TRUE
    /\ \/ hasStored /\ nvs' = [nvs EXCEPT !.boots = 0] /\ tries' = 0
       \/ UNCHANGED <<nvs, tries>>  \* nothing stored, or the handle refused
    /\ UNCHANGED <<profiles, hasStored, applyPending, rebootPending, fallback, main,
                   request, blind, whole, events>>

Loop == TakeChange \/ CopyFront \/ CopyRest \/ Prove

----------------------------------------------------------------------------
(* applyJson() on the web task.                                             *)
Happens == events < MaxEvents /\ events' = events + 1
Up == main \in {"run", "copy", "rest"}
WebStep(from, to) ==
    /\ web = from /\ web' = to
    /\ UNCHANGED <<counterCleared, fallback, main>>
RamKept == UNCHANGED <<profiles, hasStored, applyPending, rebootPending>>

Request ==
    /\ Up /\ Happens
    /\ WebStep("idle", "read") /\ RamKept
    /\ p' = Copied(p, active, Front)
    /\ UNCHANGED <<nvs, live, history>>

(* The rest of the active profile, and the document on top of it.           *)
Patched(patch) ==
    [f \in Fields |-> IF f \in DOMAIN patch THEN patch[f]
                      ELSE IF f \in Front THEN p[f] ELSE active[f]]

SameWiring(a, b) == \A f \in Wiring : a[f] = b[f]

Accept(patch) ==
    /\ Patched(patch) \in Valid
    /\ WebStep("read", "open") /\ RamKept
    /\ p' = Patched(patch)
    /\ live' = SameWiring(active, Patched(patch))
    /\ UNCHANGED <<nvs, history, events>>

(* Not valid, or no button left for the factory reset under a password.     *)
Reject ==
    /\ WebStep("read", "idle") /\ RamKept
    /\ p' = Blank
    /\ UNCHANGED <<nvs, live, history, events>>

----------------------------------------------------------------------------
(* store() on the web task, a step for every put.  A handle that could not   *)
(* be opened is not noticed: no put does anything.                           *)
AfterSetEarly ==  \* mutant of After
    [keys |-> "btns", btns |-> "bact", bact |-> "btnc", btnc |-> "set",
     set |-> "bacc", bacc |-> "iover", iover |-> "boots", boots |-> "ram"]
After ==
    [keys |-> "btns", btns |-> "bact", bact |-> "btnc", btnc |-> "bacc",
     bacc |-> "iover", iover |-> "set", set |-> "boots", boots |-> "ram"]

Open ==
    /\ WebStep("open", "keys") /\ RamKept
    /\ UNCHANGED <<nvs, p, live, history, events>>

OpenRefused ==
    /\ WebStep("open", "ram") /\ RamKept
    /\ blind' = blind \cup {"refused"}
    /\ UNCHANGED <<nvs, p, live, whole, tries, events>>

(* A blob is written when it differs from the copy in RAM.                  *)
UnchangedFromActive(f) == f \in Blobs /\ nvs.iover /\ p[f] = active[f]  \* mutant of Skipped
Skipped(f) == f \in Blobs /\ nvs.iover /\ p[f] = stored[f]

PutPart(f) ==
    /\ WebStep(f, After[f]) /\ RamKept
    /\ nvs' = IF Skipped(f) THEN nvs ELSE [nvs EXCEPT !.kept = [@ EXCEPT ![f] = p[f]]]
    /\ whole' = FALSE
    /\ UNCHANGED <<p, live, blind, tries, events>>

PutVersion ==
    /\ WebStep("iover", After["iover"]) /\ RamKept
    /\ nvs' = [nvs EXCEPT !.iover = TRUE]
    /\ UNCHANGED <<p, live, history, events>>

PutSet ==
    /\ WebStep("set", After["set"]) /\ RamKept
    /\ nvs' = [nvs EXCEPT !.set = TRUE]
    /\ UNCHANGED <<p, live, history, events>>

BootsKept == nvs.boots  \* mutant of BootsStored
BootsStored == 0

PutBoots ==
    /\ WebStep("boots", After["boots"]) /\ RamKept
    /\ nvs' = [nvs EXCEPT !.boots = BootsStored]
    /\ whole' = TRUE /\ tries' = 0
    /\ UNCHANGED <<p, live, blind, events>>

Remember ==
    /\ WebStep("ram", IF live THEN "pend" ELSE "idle")
    /\ stored' = p /\ hasStored' = TRUE /\ rebootPending' = TRUE
    /\ p' = IF live THEN p ELSE Blank
    /\ UNCHANGED <<nvs, active, pending, applyPending, live, history, events>>

Store ==
    \/ Open \/ OpenRefused \/ PutVersion \/ PutSet \/ PutBoots \/ Remember
    \/ \E f \in Fields : PutPart(f)

(* A change that leaves the wiring alone is handed to loop().               *)
PendFront ==
    /\ WebStep("pend", "pendrest")
    /\ pending' = Copied(pending, p, Front)
    /\ UNCHANGED <<nvs, active, stored, hasStored, applyPending, rebootPending, p, live,
                   history, events>>

PendRest ==
    /\ WebStep("pendrest", "flag")
    /\ pending' = Copied(pending, p, Fields \ Front)
    /\ UNCHANGED <<nvs, active, stored, hasStored, applyPending, rebootPending, p, live,
                   history, events>>

Flag ==
    /\ WebStep("flag", "idle")
    /\ applyPending' = TRUE /\ rebootPending' = FALSE
    /\ p' = Blank /\ live' = FALSE
    /\ UNCHANGED <<nvs, profiles, hasStored, history, events>>

ApplyJson ==
    \/ Reject \/ Store \/ PendFront \/ PendRest \/ Flag
    \/ \E patch \in Patches : Accept(patch)

(* resetToDefaults(), when clear() succeeds; it changes nothing otherwise.  *)
ResetToDefaults ==
    /\ Up /\ Happens
    /\ WebStep("idle", "idle")
    /\ nvs' = Erased
    /\ stored' = Defaults /\ hasStored' = FALSE /\ rebootPending' = TRUE
    /\ blind' = {} /\ whole' = TRUE /\ tries' = 0
    /\ UNCHANGED <<active, pending, applyPending, p, live>>

----------------------------------------------------------------------------
(* The RAM is gone, by a restart or the power, or by a crash.               *)
Gone ==
    /\ active' = Blank /\ stored' = Blank /\ pending' = Blank
    /\ hasStored' = FALSE /\ applyPending' = FALSE
    /\ rebootPending' = FALSE /\ counterCleared' = FALSE
    /\ fallback' = "unconfigured"
    /\ main' = "boot" /\ web' = "idle" /\ p' = Blank /\ live' = FALSE
    /\ UNCHANGED <<nvs, history>>
Restart == Happens /\ Gone
Crash == Up /\ active \in Crashing /\ Gone /\ UNCHANGED events

Next ==
    \/ Begin \/ Loop
    \/ Request \/ ApplyJson \/ ResetToDefaults
    \/ Restart \/ Crash

Spec == Init /\ [][Next]_vars

(* Both tasks run, and a profile that crashes the device does so.           *)
FairSpec ==
    /\ Spec
    /\ WF_vars(Begin) /\ WF_vars(Loop) /\ WF_vars(ApplyJson) /\ WF_vars(Crash)

----------------------------------------------------------------------------
(* Every variable keeps its type, the counter of boots its range.           *)
TypeOK ==
    /\ nvs \in Nvs
    /\ {active, stored, pending, p} \subseteq Profiles
    /\ {hasStored, applyPending, rebootPending, counterCleared, live, whole}
           \subseteq BOOLEAN
    /\ fallback \in Fallbacks
    /\ main \in {"boot", "drop", "run", "copy", "rest"} /\ web \in Steps
    /\ blind \subseteq {"dropped", "cut", "refused"}
    /\ tries \in 0..MAX_BOOT_ATTEMPTS /\ events \in 0..MaxEvents

(* The profile in RAM that store() compares with is the one a start would   *)
(* load, although store() writes only what differs from it                  *)
(* (hw_config.cpp:881-896): the profile that was accepted is kept.          *)
ReadsBack == web = "idle" /\ Up /\ hasStored /\ blind = {} => Loaded = stored

(* Without a pending reboot the device runs on what a start would give it   *)
(* (hw_config.h:308), however the handover to loop() and further requests   *)
(* interleave.                                                              *)
NextStart == IF nvs.set /\ Loaded \in Valid THEN Loaded ELSE Defaults
NoRebootOwed ==
    web = "idle" /\ main = "run" /\ ~applyPending /\ ~rebootPending /\ blind = {}
        => active = NextStart

(* Pins are not moved while the peripherals sit on them                     *)
(* (hw_config.cpp:1263-1271): only a start changes the wiring.              *)
WiringFixed ==
    [][Up /\ Up' => \A f \in Wiring : active'[f] = active[f]]_vars

(* A profile is marked as stored when all of it is in NVS: a start after a  *)
(* power cut in store() gives the defaults or the whole first profile.      *)
SetMarksWhole == [][~nvs.set /\ nvs'.set => Loaded' = p \/ blind # {}]_vars

(* A profile written completely is dropped only after two boots since it    *)
(* was written or its proof noted (hw_config.h:285), whatever restarts,     *)
(* stores and resets come in between.                                       *)
DropEarned ==
    [][main = "boot" /\ nvs.set /\ ~nvs'.set /\ whole => tries >= MAX_BOOT_ATTEMPTS]_vars

(* To whatever starts it again the profile is a crash-loop guard and no     *)
(* more: every step of begin(), loop() and the requests is one of           *)
(* CrashGuard's, or none (hw_config.cpp:939-976, 1010-1030).                *)
Stage == IF Up THEN "up" ELSE main
Guard == INSTANCE CrashGuard
             WITH at <- Stage, set <- nvs.set, boots <- nvs.boots,
                  cleared <- counterCleared, has <- hasStored
GuardKept == Guard!GuardSpec

(* A profile the device crashes with cannot keep it from starting: after    *)
(* the last request and power cut the device comes to stay up               *)
(* (hw_config.cpp:948-953).                                                 *)
Settles == <>[](Up /\ active \notin Crashing)

(* The comment at applyJson(), "true if the profile was accepted and        *)
(* stored" (hw_config.h:342), when no handle was refused and no store() cut. *)
AcceptedIsStored ==
    web = "idle" /\ Up /\ hasStored /\ blind \subseteq {"dropped"} => Loaded = stored
=============================================================================
