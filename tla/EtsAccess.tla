------------------------------ MODULE EtsAccess ------------------------------
(***************************************************************************)
(* The lock on KNX management access (src/src/ets_access.cpp).             *)
(*                                                                         *)
(* Three paths lead to the device's own KNX stack.  A stored mask says     *)
(* which of them are open; a temporary unlock opens all of them until a    *)
(* deadline kept as a wrapping millisecond count.  Two tasks call in: the  *)
(* main task (loop(), the buttons, permits() from inside the KNX stack)    *)
(* and the web server task (setAllowed(), unlock()).  Nothing is locked,   *)
(* so every access to a shared member is a step of its own.                *)
(*                                                                         *)
(* A permits() that finds its path open, or that refuses, changes nothing  *)
(* but statistics and the log and is a stuttering step here.               *)
(***************************************************************************)
EXTENDS Integers

CONSTANTS
    Masks,       \* the masks the dashboard may send
    Buttons,     \* the button functions fitted: subset of "tp" "net" "all" "unlock"
    WebCalls,    \* the web calls in use: subset of "set" "unlock"
    NvsMayFail,  \* whether Preferences::begin may refuse
    Span,        \* size of the millis() range, 2^32 in the code
    UnlockMs,    \* UNLOCK_MS
    GraceMs,     \* UNLOCK_GRACE_MS
    Stall        \* longest time between two passes of the main loop

Net == {"tunnel", "routing"}
Paths == {"tp"} \cup Net
Tasks == {"main", "web"}

ASSUME MasksAssumption == Masks \subseteq SUBSET Paths
ASSUME CallsAssumption ==
    /\ Buttons \subseteq {"tp", "net", "all", "unlock"}
    /\ WebCalls \subseteq {"set", "unlock"}
    /\ NvsMayFail \in BOOLEAN
ASSUME TimeAssumption ==
    /\ {Span, UnlockMs, GraceMs, Stall} \subseteq Nat \ {0}
    /\ Span % 2 = 0
    /\ UnlockMs + 1 < Span \div 2
    /\ GraceMs <= UnlockMs
    /\ 2 * Stall < Span \div 2

VARIABLES
    allowed,     \* _allowed
    remembered,  \* _remembered
    nvs,         \* what the namespace sbip-ets holds
    unlockUntil, \* _unlockUntil, 0 when no unlock runs
    now,         \* millis()
    sinceLoop,   \* time since the main task last finished loop()
    call,        \* per task, the call it is in
    left,        \* history: what is left of the period the last unlock promised
    netBefore,   \* history: what may reopen the network while a button has it
                 \* closed: the network paths it found open, and what the
                 \* dashboard sets while it closes them; {} when no button has,
                 \* or when the dashboard set a mask after that, or when the
                 \* button for everything closed what they had left open
    disturbed    \* history: the dashboard changed the deadline between the
                 \* main task's read and its write, under the last unlock

vars == <<allowed, remembered, nvs, unlockUntil, now, sinceLoop, call,
          left, netBefore, disturbed>>
settings == <<allowed, remembered, nvs, netBefore>>
clock == <<now, sinceLoop>>

Idle == [op |-> "idle"]
Store(mask, remember) == [op |-> "store", mask |-> mask, remember |-> remember]
Remember(was, mask) == [op |-> "remember", was |-> was, mask |-> mask]
Open(base, button) == [op |-> "open", base |-> base, button |-> button]
Deciding == call["main"].op \in {"expire", "extend", "write"}
StoreOps == {"keep", "nvsAllow", "nvsRemember", "put"}
Calls ==
    {Idle, [op |-> "expire"], [op |-> "extend"]}
    \cup [op : {"store"}, mask : SUBSET Paths, remember : BOOLEAN]
    \cup [op : StoreOps, mask : SUBSET Paths]
    \cup [op : {"remember"}, was : SUBSET Paths, mask : SUBSET Paths]
    \cup [op : {"open"}, base : SUBSET Paths, button : {"net", "all"}]
    \cup [op : {"write"}, until : 0 .. Span - 1]

(* Arithmetic of uint32_t milliseconds, and the value of a difference cast  *)
(* to int32_t.                                                              *)
After(t, ms) == (t + ms) % Span
Signed(d) == IF d % Span < Span \div 2 THEN d % Span ELSE (d % Span) - Span

(* x | 1: a deadline is never the 0 that means "no unlock".                 *)
DeadlineEven(x) == x  \* mutant of Deadline
Deadline(x) == IF x % 2 = 0 THEN x + 1 ELSE x

Init ==
    /\ allowed = Paths /\ remembered = Paths
    /\ nvs = [allow |-> Paths, remember |-> Paths]
    /\ unlockUntil = 0 /\ now = 0 /\ sinceLoop = 0
    /\ call = [t \in Tasks |-> Idle]
    /\ left = 0 /\ netBefore = {} /\ disturbed = FALSE

----------------------------------------------------------------------------
(* store(): the mask in RAM, what is remembered of it, then the two NVS     *)
(* keys, in that order.  Only the dashboard's mask is remembered, and only  *)
(* one that opens something.                                                *)

RemembersAlways(c) == TRUE  \* mutant of Remembers
Remembers(c) == c.remember /\ c.mask # {}

NvsAfter(c) == [nvs EXCEPT !.allow = c.mask]

(* The network paths the network button opens, given what is remembered.    *)
Reopens(mask) == IF mask \cap Net # {} THEN mask \cap Net ELSE Net

(* The main task is about to close the network, whatever is open by then.   *)
ClosesNet(c) == c.op = "remember" \/ (c.op = "store" /\ c.mask \cap Net = {})

(* _allowed = mask.                                                         *)
StoreRam(t) ==
    /\ call[t].op = "store"
    /\ allowed' = call[t].mask
    /\ netBefore' = IF t = "main" /\ call[t].mask \cap Net # {} THEN {}
                    ELSE IF t = "web" /\ ~ClosesNet(call["main"]) THEN {}
                    ELSE netBefore
    /\ call' = [call EXCEPT ![t] =
                    [op |-> IF Remembers(call[t]) THEN "keep" ELSE "nvsAllow",
                     mask |-> call[t].mask]]
    /\ UNCHANGED <<remembered, nvs, unlockUntil, left, clock, disturbed>>

(* _remembered = mask.                                                      *)
StoreMemory(t) ==
    /\ call[t].op = "keep"
    /\ remembered' = call[t].mask
    /\ netBefore' = IF t = "main" \/ netBefore = {} THEN netBefore
                    ELSE netBefore \cup {Reopens(call[t].mask)}
    /\ call' = [call EXCEPT ![t] = [op |-> "nvsAllow", mask |-> call[t].mask]]
    /\ UNCHANGED <<allowed, nvs, unlockUntil, left, clock, disturbed>>

StoreAllow(t) ==
    /\ call[t].op = "nvsAllow"
    /\ nvs' = NvsAfter(call[t])
    /\ call' = [call EXCEPT ![t] = [op |-> "nvsRemember", mask |-> call[t].mask]]
    /\ UNCHANGED <<allowed, remembered, netBefore, unlockUntil, left, clock,
                   disturbed>>

(* The second key: _remembered is read, by now perhaps another task's...     *)
StoreLooksUp(t) ==
    /\ call[t].op = "nvsRemember"
    /\ call' = [call EXCEPT ![t] = [op |-> "put", mask |-> remembered]]
    /\ UNCHANGED <<settings, unlockUntil, left, clock, disturbed>>

(* ...and written.                                                          *)
StoreRemember(t) ==
    /\ call[t].op = "put"
    /\ nvs' = [nvs EXCEPT !.remember = call[t].mask]
    /\ call' = [call EXCEPT ![t] = Idle]
    /\ UNCHANGED <<allowed, remembered, netBefore, unlockUntil, left, clock,
                   disturbed>>

(* prefs.begin() failed: the setting is used but not kept.                  *)
StoreRefused(t) ==
    /\ NvsMayFail
    /\ call[t].op = "nvsAllow"
    /\ call' = [call EXCEPT ![t] = Idle]
    /\ UNCHANGED <<settings, unlockUntil, left, clock, disturbed>>

----------------------------------------------------------------------------
(* The dashboard and the buttons.                                           *)

SetAllowed(mask) ==
    /\ "set" \in WebCalls /\ call["web"] = Idle
    /\ call' = [call EXCEPT !["web"] = Store(mask, TRUE)]
    /\ UNCHANGED <<settings, unlockUntil, left, clock, disturbed>>

ToggleTp ==
    /\ "tp" \in Buttons /\ call["main"] = Idle
    /\ call' = [call EXCEPT !["main"] =
                    Store((allowed \ {"tp"}) \cup ({"tp"} \ allowed), FALSE)]
    /\ UNCHANGED <<settings, unlockUntil, left, clock, disturbed>>

(* The other two buttons read _allowed and go one of two ways: to close,    *)
(* they note what they read and store the rest; to open, they look up what  *)
(* was noted.                                                               *)
FoundOpen == IF allowed \cap Net # {} THEN {allowed \cap Net} ELSE {}

ToggleNet ==
    /\ "net" \in Buttons /\ call["main"] = Idle
    /\ IF allowed \cap Net # {}
       THEN /\ call' = [call EXCEPT !["main"] = Remember(allowed, allowed \ Net)]
            /\ netBefore' = FoundOpen
       ELSE /\ call' = [call EXCEPT !["main"] = Open(allowed, "net")]
            /\ UNCHANGED netBefore
    /\ UNCHANGED <<allowed, remembered, nvs, unlockUntil, left, clock, disturbed>>

ToggleAll ==
    /\ "all" \in Buttons /\ call["main"] = Idle
    /\ IF allowed # {}
       THEN /\ call' = [call EXCEPT !["main"] = Remember(allowed, {})]
            /\ netBefore' = FoundOpen
       ELSE /\ call' = [call EXCEPT !["main"] = Open({}, "all")]
            /\ UNCHANGED netBefore
    /\ UNCHANGED <<allowed, remembered, nvs, unlockUntil, left, clock, disturbed>>

(* _remembered = what _allowed was when the button was pressed.             *)
ToggleNotes ==
    /\ call["main"].op = "remember"
    /\ remembered' = call["main"].was
    /\ call' = [call EXCEPT !["main"] = Store(call["main"].mask, FALSE)]
    /\ UNCHANGED <<allowed, nvs, netBefore, unlockUntil, left, clock, disturbed>>

Opened(c) ==
    IF c.button = "net" THEN c.base \cup Reopens(remembered)
    ELSE IF remembered # {} THEN remembered ELSE Paths

ToggleOpens ==
    /\ call["main"].op = "open"
    /\ call' = [call EXCEPT !["main"] = Store(Opened(call["main"]), FALSE)]
    /\ UNCHANGED <<settings, unlockUntil, left, clock, disturbed>>

(* unlock(true) is one store.  unlock(false) reads the deadline and then     *)
(* clears it; as it writes 0 whatever it read, one step has the same        *)
(* outcomes.  A button asks for the opposite of what it sees.               *)
MayUnlock(t, enable) ==
    /\ call[t] = Idle
    /\ \/ t = "web" /\ "unlock" \in WebCalls
       \/ t = "main" /\ "unlock" \in Buttons /\ enable = (unlockUntil = 0)

UnlockCrosses(t) == disturbed' = (t = "web" /\ Deciding)

UnlockOn(t) ==
    /\ MayUnlock(t, TRUE)
    /\ unlockUntil' = Deadline(After(now, UnlockMs))
    /\ left' = UnlockMs
    /\ UnlockCrosses(t)
    /\ UNCHANGED <<settings, clock, call>>

UnlockOff(t) ==
    /\ MayUnlock(t, FALSE)
    /\ unlockUntil # 0
    /\ unlockUntil' = 0
    /\ left' = 0
    /\ UnlockCrosses(t)
    /\ UNCHANGED <<settings, clock, call>>

----------------------------------------------------------------------------
(* The main task: loop() and permits().                                     *)

ExpiredExactly == now = unlockUntil  \* mutant of Expired
Expired == Signed(now - unlockUntil) >= 0

(* loop() without a running or an expired unlock.                           *)
LoopKeeps ==
    /\ call["main"] = Idle
    /\ unlockUntil = 0 \/ ~Expired
    /\ sinceLoop' = 0
    /\ UNCHANGED <<settings, unlockUntil, now, call, left, disturbed>>

(* loop() saw an expired deadline in its local copy...                       *)
LoopExpired ==
    /\ call["main"] = Idle
    /\ unlockUntil # 0 /\ Expired
    /\ call' = [call EXCEPT !["main"] = [op |-> "expire"]]
    /\ UNCHANGED <<settings, unlockUntil, clock, left, disturbed>>

(* ...and ends the unlock.                                                  *)
LoopClears ==
    /\ call["main"].op = "expire"
    /\ unlockUntil' = 0
    /\ sinceLoop' = 0
    /\ call' = [call EXCEPT !["main"] = Idle]
    /\ UNCHANGED <<settings, now, left, disturbed>>

(* permits() for a frame to our own address, on a path that only the        *)
(* temporary unlock opens.                                                  *)
LockedPath(path) == path \notin allowed  \* mutant of ByUnlock
ByUnlock(path) == path \notin allowed /\ unlockUntil # 0

PermitUnlocked(path) ==
    /\ call["main"] = Idle
    /\ ByUnlock(path)
    /\ call' = [call EXCEPT !["main"] = [op |-> "extend"]]
    /\ UNCHANGED <<settings, unlockUntil, clock, left, disturbed>>

(* The second read of _unlockUntil: is a minute from now later?             *)
AtLeast == After(now, GraceMs)

ExtendCompare ==
    /\ call["main"].op = "extend"
    /\ call' = [call EXCEPT !["main"] =
                    IF Signed(AtLeast - unlockUntil) > 0
                    THEN [op |-> "write", until |-> Deadline(AtLeast)]
                    ELSE Idle]
    /\ UNCHANGED <<settings, unlockUntil, clock, left, disturbed>>

ExtendWrite ==
    /\ call["main"].op = "write"
    /\ unlockUntil' = call["main"].until
    /\ call' = [call EXCEPT !["main"] = Idle]
    /\ UNCHANGED <<settings, clock, left, disturbed>>

----------------------------------------------------------------------------
Tick ==
    /\ sinceLoop < Stall
    /\ now' = After(now, 1)
    /\ sinceLoop' = sinceLoop + 1
    /\ left' = IF left = 0 THEN 0 ELSE left - 1
    /\ UNCHANGED <<settings, unlockUntil, call, disturbed>>

(* A restart at any point: begin() reads both keys back, an unlock is over. *)
Restart ==
    /\ allowed' = nvs.allow /\ remembered' = nvs.remember
    /\ unlockUntil' = 0 /\ left' = 0
    /\ call' = [t \in Tasks |-> Idle]
    /\ now' = 0 /\ sinceLoop' = 0
    /\ netBefore' = {} /\ disturbed' = FALSE
    /\ UNCHANGED nvs

StoreStep(t) ==
    \/ StoreRam(t) \/ StoreMemory(t)
    \/ StoreAllow(t) \/ StoreLooksUp(t) \/ StoreRemember(t) \/ StoreRefused(t)

ToggleStep == ToggleTp \/ ToggleNet \/ ToggleAll \/ ToggleNotes \/ ToggleOpens

MainStep ==
    \/ StoreStep("main")
    \/ LoopKeeps \/ LoopExpired \/ LoopClears
    \/ ExtendCompare \/ ExtendWrite

Next ==
    \/ \E mask \in Masks : SetAllowed(mask)
    \/ ToggleStep
    \/ \E t \in Tasks : UnlockOn(t) \/ UnlockOff(t)
    \/ \E path \in Paths : PermitUnlocked(path)
    \/ StoreStep("web")
    \/ MainStep
    \/ Tick
    \/ Restart

Spec == Init /\ [][Next]_vars

----------------------------------------------------------------------------
TypeOK ==
    /\ allowed \subseteq Paths /\ remembered \subseteq Paths
    /\ nvs \in [allow : SUBSET Paths, remember : SUBSET Paths]
    /\ {unlockUntil, now} \subseteq 0 .. Span - 1
    /\ sinceLoop \in 0 .. Stall
    /\ call \in [Tasks -> Calls]
    /\ left \in 0 .. UnlockMs
    /\ netBefore \subseteq SUBSET Net
    /\ disturbed \in BOOLEAN

(* A button that opens the network opens exactly the paths a button found   *)
(* open when it was pressed to close them: "tunnel only" does not become    *)
(* "tunnel and multicast" by being switched off and on, however the         *)
(* dashboard's store() falls between the button's steps.  A mask the        *)
(* dashboard sets just while a button closes may win instead, never a mix.  *)
NetRestored ==
    [][ (StoreRam("main") /\ netBefore # {} /\ allowed' \cap Net # {})
            => allowed' \cap Net \in netBefore ]_vars

(* Time does not shorten an unlock: until its period is over, it is in force *)
(* unless someone ended it, or it was given while the main task was just     *)
(* ending the one before.                                                   *)
UnlockLasts == left > 0 /\ ~disturbed => unlockUntil # 0

(* An ended unlock stays ended until somebody unlocks again: the extension   *)
(* in permits() does not bring it back, whatever comes between its steps     *)
(* but the end of the unlock itself.                                        *)
EndedStaysEnded ==
    [][ (unlockUntil = 0 /\ unlockUntil' # 0 /\ ~disturbed)
            => \E t \in Tasks : UnlockOn(t) ]_vars

(* "Open every path for UNLOCK_MS, or end that early": ended is ended, also   *)
(* while permits() is extending the unlock on the other task.               *)
EndedForGood ==
    [][ (unlockUntil = 0 /\ unlockUntil' # 0) => \E t \in Tasks : UnlockOn(t) ]_vars
=============================================================================
