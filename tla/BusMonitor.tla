----------------------------- MODULE BusMonitor -----------------------------
(***************************************************************************)
(* The bus monitor (src/src/bus_monitor.cpp).  The main task hands every   *)
(* frame of the stack to hook(): into the tail in RTC memory, which a      *)
(* restart keeps, and into the ring in PSRAM if the recording is on.  The  *)
(* web task starts, stops and clears the recording.  Appending to the ring *)
(* and emptying it are critical sections; the recording state around them  *)
(* is not protected.                                                       *)
(***************************************************************************)
EXTENDS Integers

CONSTANTS
    Capacity,   \* _capacity
    Tail,       \* TAIL_FRAMES, 64
    SeqMod,     \* modulus of a sequence number, 2^32
    Requests,   \* arguments start() may be called with
    Sides,      \* the sides a frame may be seen on
    MaxFrames,  \* bound of the model: frames on the bus
    MaxRuns     \* bound of the model: boots

States == {"off", "armed", "running", "full"}
Settings == [sides : SUBSET Sides, trigger : {"now", "event"}, pre : Nat,
             post : Nat, full : BOOLEAN]
MainSteps == {"idle", "head", "count", "gate", "append", "settle"}
WebSteps == {"idle", "configure", "go", "clear"}

ASSUME LimitAssumption ==
    /\ Capacity \in Nat \ {0} /\ Tail \in Nat \ {0} /\ Tail < Capacity
    /\ SeqMod \in Nat \ {0} /\ Sides # {}
    /\ MaxFrames \in Nat /\ MaxRuns \in Nat /\ MaxFrames + Tail < SeqMod
ASSUME RequestsAssumption == Requests \subseteq Settings

(* A frame: its number on the bus, the side it is seen on, whether it fires *)
(* the configured trigger, and the boot it belongs to.                      *)
Frame == [n : Nat, side : Sides, event : BOOLEAN, run : Nat]

VARIABLES
    avail,      \* _ring # nullptr
    ring, head, count, written,
    state, cfg, triggerSeq, triggered, missed,
    tail, tailHead, tailCount, tailValid,  \* RTC memory; tailValid: the magic
    main,       \* hook(): the step, the frame, the state read
    web,        \* start() or clear(): the step, the arguments
    frames, run, runStart,  \* frames so far, boots so far, frames before this
    armedAt,    \* history: written() at the last start()
    fired,      \* history: this run's trigger has fired
    after,      \* history: frames recorded since the one that fired it
    disturbed   \* history: since the last start() the web task and capture()
                \* have met, or the recording was cleared while it ran

buffer == <<avail, ring, head, count, written>>
recording == <<state, cfg, triggerSeq, triggered, missed>>
rtc == <<tail, tailHead, tailCount, tailValid>>
bus == <<frames, run, runStart>>
history == <<armedAt, fired, after, disturbed>>
vars == <<buffer, recording, rtc, main, web, bus, history>>

Slots == 0 .. Capacity - 1
Blank == [n |-> 0, side |-> CHOOSE s \in Sides : TRUE, event |-> FALSE,
          run |-> 0]
Idle == [at |-> "idle", frame |-> Blank, seen |-> "off"]
Quiet == [at |-> "idle", req |-> cfg]
Defaults == [sides |-> Sides, trigger |-> "now", pre |-> 0, post |-> 0,
             full |-> FALSE]

Capturing == main.at \in {"append", "settle"}
Disturb(holds) == disturbed' = IF holds THEN TRUE ELSE disturbed

----------------------------------------------------------------------------
(* begin() and carryOver(): the ring starts with the tail of the last run.  *)
FirstAtHead(n) == tailHead  \* mutant of First
First(n) == (tailHead + Tail - n) % Tail
Carried(kept) == IF kept /\ tailValid THEN tailCount ELSE 0

Fresh ==
    /\ state' = "off" /\ cfg' = Defaults /\ triggerSeq' = 0
    /\ triggered' = FALSE /\ missed' = 0
    /\ main' = Idle /\ web' = [at |-> "idle", req |-> Defaults]
    /\ armedAt' = 0 /\ fired' = FALSE /\ after' = 0 /\ disturbed' = FALSE

CarryOver(n) ==
    /\ ring' = [i \in Slots |-> IF i < n THEN tail[(First(n) + i) % Tail]
                                ELSE Blank]
    /\ head' = n % Capacity /\ count' = n /\ written' = n
    /\ tailHead' = 0 /\ tailCount' = 0 /\ tailValid' = TRUE
    /\ UNCHANGED tail

(* Without a ring begin() returns before carryOver().                       *)
NoRing(kept) ==
    /\ ring' = [i \in Slots |-> Blank]
    /\ head' = 0 /\ count' = 0 /\ written' = 0
    /\ tailValid' = (tailValid /\ kept)
    /\ UNCHANGED <<tail, tailHead, tailCount>>

Init ==
    /\ avail \in BOOLEAN
    /\ ring = [i \in Slots |-> Blank]
    /\ head = 0 /\ count = 0 /\ written = 0
    /\ state = "off" /\ cfg = Defaults /\ triggerSeq = 0
    /\ triggered = FALSE /\ missed = 0
    /\ tail = [i \in 0 .. Tail - 1 |-> Blank] /\ tailHead = 0 /\ tailCount = 0
    /\ tailValid = avail
    /\ main = Idle /\ web = [at |-> "idle", req |-> Defaults]
    /\ frames = 0 /\ run = 1 /\ runStart = 0
    /\ armedAt = 0 /\ fired = FALSE /\ after = 0 /\ disturbed = FALSE

(* RTC memory keeps its content over a software reset, a panic and a        *)
(* watchdog, and loses it with the power.                                   *)
Restart(kept) ==
    /\ run < MaxRuns
    /\ avail' \in BOOLEAN
    /\ IF avail' THEN CarryOver(Carried(kept)) ELSE NoRing(kept)
    /\ Fresh
    /\ run' = run + 1 /\ runStart' = frames
    /\ UNCHANGED frames

----------------------------------------------------------------------------
(* hook(), first remember(): the slot, the head, the count.                 *)
Arrive ==
    /\ main.at = "idle" /\ frames < MaxFrames
    /\ \E side \in Sides, event \in BOOLEAN :
        LET f == [n |-> frames + 1, side |-> side, event |-> event,
                  run |-> run]
            slot == IF tailValid THEN tailHead ELSE 0
        IN /\ tail' = [tail EXCEPT ![slot] = f]
           /\ tailHead' = slot
           /\ main' = [at |-> "head", frame |-> f, seen |-> "off"]
    /\ tailCount' = IF tailValid THEN tailCount ELSE 0
    /\ tailValid' = TRUE
    /\ frames' = frames + 1
    /\ UNCHANGED <<buffer, recording, web, run, runStart, history>>

RememberHead ==
    /\ main.at = "head"
    /\ tailHead' = (tailHead + 1) % Tail
    /\ main' = [main EXCEPT !.at = "count"]
    /\ UNCHANGED <<buffer, recording, tail, tailCount, tailValid, web, bus,
                   history>>

RememberCount ==
    /\ main.at = "count"
    /\ tailCount' = IF tailCount < Tail THEN tailCount + 1 ELSE tailCount
    /\ main' = [main EXCEPT !.at = "gate"]
    /\ UNCHANGED <<buffer, recording, tail, tailHead, tailValid, web, bus,
                   history>>

(* fires()                                                                  *)
Fires(f) == cfg.trigger = "now" \/ f.event

(* capture(): is the frame to be recorded?  The state is read once, here.   *)
Wanted(f) ==
    /\ avail /\ state \in {"armed", "running"}
    /\ f.side \in cfg.sides
    /\ (state = "armed" /\ cfg.pre = 0) => Fires(f)

Gate ==
    /\ main.at = "gate"
    /\ main' = IF Wanted(main.frame)
               THEN [main EXCEPT !.at = "append", !.seen = state]
               ELSE Idle
    /\ UNCHANGED <<buffer, recording, rtc, web, bus, armedAt, fired, after,
                   disturbed>>

(* capture(), the critical section.  While armed the ring holds no more     *)
(* than the frames asked for from before the trigger.                       *)
NextSlot(i) == (i + 1) % Capacity
Armed == main.seen = "armed"
Limit == IF Armed /\ cfg.pre > 0 /\ cfg.pre < Capacity THEN cfg.pre
                                                       ELSE Capacity
CountGrows == count + 1  \* mutant of CountAfter
CountAfter == IF count < Limit THEN count + 1 ELSE count

Overflow ==
    /\ main.at = "append" /\ cfg.full /\ count >= Capacity /\ ~Armed
    /\ missed' = missed + 1
    /\ state' = "full"
    /\ main' = Idle
    /\ Disturb(web.at # "idle")
    /\ UNCHANGED <<buffer, cfg, triggerSeq, triggered, rtc, web, bus, armedAt,
                   fired, after>>

Append ==
    /\ main.at = "append" /\ ~(cfg.full /\ count >= Capacity /\ ~Armed)
    /\ ring' = [ring EXCEPT ![head] = main.frame]
    /\ head' = NextSlot(head)
    /\ count' = CountAfter
    /\ written' = written + 1
    /\ after' = IF fired /\ ~Armed THEN after + 1 ELSE after
    /\ main' = [main EXCEPT !.at = "settle"]
    /\ Disturb(web.at # "idle")
    /\ UNCHANGED <<avail, recording, rtc, web, bus, armedAt, fired>>

(* capture(), after it: the trigger, or the end of the frames after it.     *)
LastWritten == written  \* mutant of TriggerNow
TriggerNow == (written - 1) % SeqMod

Trigger ==
    /\ main.at = "settle" /\ Armed /\ Fires(main.frame)
    /\ triggerSeq' = TriggerNow
    /\ triggered' = TRUE
    /\ state' = "running"
    /\ fired' = TRUE /\ after' = 0
    /\ main' = Idle
    /\ Disturb(web.at # "idle")
    /\ UNCHANGED <<buffer, cfg, missed, rtc, web, bus, armedAt>>

(* mutant of SinceTrigger *)
SinceTriggerFull == (written - triggerSeq) % SeqMod >= cfg.post
SinceTrigger == (written - triggerSeq) % SeqMod > cfg.post

Settle ==
    /\ main.at = "settle" /\ ~(Armed /\ Fires(main.frame))
    /\ state' = IF ~Armed /\ cfg.post > 0 /\ triggered /\ SinceTrigger
                THEN "full" ELSE state
    /\ main' = Idle
    /\ Disturb(web.at # "idle")
    /\ UNCHANGED <<buffer, cfg, triggerSeq, triggered, missed, rtc, web, bus,
                   armedAt, fired, after>>

----------------------------------------------------------------------------
(* start(): refused if it would end at once; else off, the settings, on.    *)
Clipped(pre) == IF pre > Capacity THEN Capacity ELSE pre

StartOff ==
    /\ web.at = "idle" /\ avail
    /\ \E req \in Requests :
        /\ ~(req.full /\ count >= Capacity)
        /\ web' = [at |-> "configure", req |-> req]
    /\ state' = "off"
    /\ disturbed' = Capturing
    /\ UNCHANGED <<buffer, cfg, triggerSeq, triggered, missed, rtc, main, bus,
                   armedAt, fired, after>>

Configure ==
    /\ web.at = "configure"
    /\ cfg' = [web.req EXCEPT !.pre = Clipped(web.req.pre)]
    /\ missed' = 0
    /\ triggerSeq' = 0
    /\ triggered' = (web.req.trigger = "now")
    /\ web' = [web EXCEPT !.at = "go"]
    /\ armedAt' = written /\ fired' = triggered'
    /\ after' = IF fired' THEN -1 ELSE 0
    /\ Disturb(Capturing)
    /\ UNCHANGED <<buffer, state, rtc, main, bus>>

Go ==
    /\ web.at = "go"
    /\ state' = IF cfg.trigger = "now" THEN "running" ELSE "armed"
    /\ Disturb(Capturing)
    /\ web' = [web EXCEPT !.at = "idle"]
    /\ UNCHANGED <<buffer, cfg, triggerSeq, triggered, missed, rtc, main, bus,
                   armedAt, fired, after>>

Stop ==
    /\ web.at = "idle"
    /\ state' = "off"
    /\ Disturb(Capturing)
    /\ UNCHANGED <<buffer, cfg, triggerSeq, triggered, missed, rtc, main, web,
                   bus, armedAt, fired, after>>

(* clear(): the ring in a critical section, then the trigger.               *)
ClearRing ==
    /\ web.at = "idle"
    /\ head' = 0 /\ count' = 0 /\ written' = 0
    /\ armedAt' = 0
    /\ web' = [web EXCEPT !.at = "clear"]
    /\ Disturb(Capturing \/ state = "running")
    /\ UNCHANGED <<avail, ring, recording, rtc, main, bus, fired, after>>

ClearTrigger ==
    /\ web.at = "clear"
    /\ triggerSeq' = 0 /\ triggered' = FALSE
    /\ web' = [web EXCEPT !.at = "idle"]
    /\ Disturb(Capturing \/ state = "running")
    /\ UNCHANGED <<buffer, state, cfg, missed, rtc, main, bus, armedAt, fired,
                   after>>

MainTask ==
    \/ Arrive \/ RememberHead \/ RememberCount
    \/ Gate \/ Overflow \/ Append \/ Trigger \/ Settle
WebTask == StartOff \/ Configure \/ Go \/ Stop \/ ClearRing \/ ClearTrigger

Next == MainTask \/ WebTask \/ \E kept \in BOOLEAN : Restart(kept)

Spec == Init /\ [][Next]_vars

----------------------------------------------------------------------------
TypeOK ==
    /\ avail \in BOOLEAN
    /\ ring \in [Slots -> Frame] /\ head \in Slots
    /\ count \in 0 .. Capacity /\ written \in Nat
    /\ state \in States /\ cfg \in Settings
    /\ triggerSeq \in 0 .. SeqMod - 1 /\ triggered \in BOOLEAN
    /\ missed \in Nat
    /\ tail \in [0 .. Tail - 1 -> Frame] /\ tailHead \in 0 .. Tail - 1
    /\ tailCount \in 0 .. Tail /\ tailValid \in BOOLEAN
    /\ main \in [at : MainSteps, frame : Frame, seen : States]
    /\ web \in [at : WebSteps, req : Settings]
    /\ frames \in 0 .. MaxFrames /\ run \in Nat /\ runStart \in Nat
    /\ armedAt \in Nat /\ fired \in BOOLEAN /\ after \in Int
    /\ disturbed \in BOOLEAN

(* at(seq): where the frame with this number sits.                          *)
SlotOf(seq) == (head + Capacity - (written - seq)) % Capacity
Oldest == written - count
Held == [seq \in Oldest .. written - 1 |-> ring[SlotOf(seq)]]

Window == INSTANCE FrameWindow WITH
    Limit <- Capacity, next <- written, oldest <- Oldest, held <- Held

(* Whatever the tasks do, at(seq) answers with the frame that was recorded  *)
(* under seq as long as oldest() <= seq < written(), and with no other.     *)
Addressed == Window!Spec

(* Both tasks between two calls, and no call has met another one since the   *)
(* last start().                                                            *)
Still == main.at = "idle" /\ web.at = "idle" /\ ~disturbed

(* triggerSeq() names the frame that fired the trigger ("Sequence number of *)
(* the frame that fired the trigger, 0 when none did"): it is a firing one, *)
(* and the first one since start().                                         *)
TriggerNamed ==
    (Still /\ triggered /\ cfg.trigger = "event") =>
        /\ triggerSeq \in armedAt .. written - 1
        /\ triggerSeq >= Oldest => Held[triggerSeq].event
        /\ \A seq \in Oldest .. written - 1 :
               seq \in armedAt .. triggerSeq - 1 => ~Held[seq].event

(* The limit of frames after the trigger: the recording goes on below it    *)
(* and stops itself at it ("frames after the trigger before it stops").  A  *)
(* recording that starts at once has no frame that fired it.                *)
PostExact ==
    (Still /\ fired /\ cfg.trigger = "event" /\ cfg.post > 0) =>
        /\ state = "running" => after < cfg.post
        /\ state = "full" => after = cfg.post \/ missed > 0

(* After a restart that kept RTC memory the ring starts with the last       *)
(* frames of the run before: no hole, none older; only the oldest one may   *)
(* be torn, when the restart hit remember().  Only a run that had a ring    *)
(* itself emptied the tail when it began.                                   *)
CarriedOver ==
    [][Restart(TRUE) /\ avail /\ avail' =>
        LET seen == frames - runStart
        IN /\ count' >= (IF seen < Tail THEN seen ELSE Tail) - 1
           /\ \A i \in 0 .. count' - 1 : ring'[i].run = run
           /\ count' > 1 => ring'[count' - 1].n \in {frames - 1, frames}
           /\ \A i \in 1 .. count' - 2 : ring'[i + 1].n = ring'[i].n + 1]_vars

=============================================================================
