------------------------------ MODULE HourMeter ------------------------------
(***************************************************************************)
(* The operating hours counter (src/src/hour_meter.cpp) with the stores it *)
(* is split over: the total in NVS, the hours since the last flush in one  *)
(* byte of RTC user RAM.  The total is behind by what the byte holds; a    *)
(* flush moves the byte into the total.  Nothing makes that move atomic,   *)
(* and a restart may fall between any two steps of it.                     *)
(*                                                                         *)
(* Time is counted in whole hours: the loop() pass that finds `due` of     *)
(* them is an action, the passes in between are stuttering steps.          *)
(***************************************************************************)
EXTENDS Integers

CONSTANTS
    Flush,       \* FLUSH_HOURS, 240
    Top,         \* largest value of the byte, 255
    MaxDue,      \* most hours one pass of loop() finds due
    MaxHours,    \* bound of the model: hours counted in all
    MaxEvents    \* bound of the model: restarts and resets

Steps == {"idle", "sum", "take", "put", "clear", "set", "ram"}
Faults == {"nvs", "i2c", "sync", "torn", "reset"}

ASSUME LimitAssumption ==
    /\ Flush \in Nat \ {0} /\ Top \in Nat /\ Flush <= Top
    /\ MaxDue \in Nat \ {0}
    /\ MaxHours \in Nat /\ MaxEvents \in Nat

VARIABLES
    total,      \* _total
    pending,    \* _pending
    starts,     \* _starts
    attached,   \* _rtc # nullptr
    pc,         \* where the main task is in loop(), attach() or flush()
    local,      \* the value it computed and has not stored yet
    webPc,      \* where the web task is in reset()
    nvsHours, nvsStarts,  \* the keys "hours" and "starts"
    byte,       \* byte 0 of the RTC user RAM
    porf,       \* power-on reset flag of the RTC
    defined,    \* history: the byte was written since the RTC last lost power
    earned,     \* history: hours counted since the last reset
    conjured,   \* history: hours taken over from a byte nobody had written
    faults,     \* history: what has gone wrong so far.  "nvs": Preferences::
                \* begin refused; "i2c": a transfer to or from the RTC failed;
                \* "sync": the clock was set before the counter attached;
                \* "torn": a restart between the two stores of a flush;
                \* "reset": reset() met another step of the counter, a counter
                \* that has not attached, or a restart
    events      \* restarts and resets so far

device == <<total, pending, starts, attached, pc, local, webPc>>
nvsKeys == <<nvsHours, nvsStarts>>
rtc == <<byte, porf, defined>>
history == <<earned, conjured, faults, events>>
vars == <<device, nvsKeys, rtc, history>>

(* hours()                                                                  *)
Hours == total + pending

Adding(fault, holds) == faults \cup (IF holds THEN {fault} ELSE {})
InReset == webPc # "idle"

(* A byte written to the RTC, or a transfer that failed.                    *)
WriteRam(value) ==
    \/ byte' = value /\ defined' = TRUE /\ UNCHANGED faults
    \/ UNCHANGED <<byte, defined>> /\ faults' = faults \cup {"i2c"}

Init ==
    /\ total = 0 /\ pending = 0 /\ starts = 1 /\ attached = FALSE
    /\ pc = "idle" /\ local = 0 /\ webPc = "idle"
    /\ nvsHours = 0 /\ nvsStarts = 1
    /\ byte \in 0 .. Top /\ porf = TRUE /\ defined = FALSE
    /\ earned = 0 /\ conjured = 0 /\ faults = {} /\ events = 0

----------------------------------------------------------------------------
(* attach(): the first loop() pass, a minute after the start, that finds    *)
(* the RTC answering.  The byte counts if the clock did not lose power and  *)
(* if it is in range; a status that cannot be read counts as power lost.    *)
TrustsInRange == byte <= Flush  \* mutant of Trusted
Trusted == ~porf /\ byte <= Flush

Attach ==
    /\ pc = "idle" /\ ~attached
    /\ attached' = TRUE
    /\ \/ /\ Trusted
          /\ pending' = byte
          /\ conjured' = conjured + (IF defined THEN 0 ELSE byte)
          /\ faults' = Adding("reset", InReset)
          /\ UNCHANGED <<byte, defined>>
       \/ /\ pending' = 0
          /\ \/ ~Trusted /\ byte' = 0 /\ defined' = TRUE
                /\ faults' = Adding("reset", InReset)
             \/ Trusted /\ byte' = 0 /\ defined' = TRUE
                /\ faults' = Adding("reset", InReset) \cup {"i2c"}
             \/ UNCHANGED <<byte, defined>>
                /\ faults' = Adding("reset", InReset) \cup {"i2c"}
          /\ UNCHANGED conjured
    /\ pc' = IF pending' = 0 THEN "idle" ELSE "sum"
    /\ UNCHANGED <<total, starts, local, webPc, nvsKeys, porf, earned, events>>

----------------------------------------------------------------------------
(* flush(): _total += _pending; _pending = 0; the total to NVS; the byte to *)
(* zero.                                                                    *)
FlushSum ==
    /\ pc = "sum"
    /\ local' = total + pending
    /\ pc' = "take"
    /\ UNCHANGED <<total, pending, starts, attached, webPc, nvsKeys, rtc,
                   history>>

FlushTake ==
    /\ pc = "take"
    /\ total' = local /\ local' = 0
    /\ pending' = 0
    /\ pc' = "put"
    /\ UNCHANGED <<starts, attached, webPc, nvsKeys, rtc, history>>

NvsNotWritten == nvsHours  \* mutant of NvsAfterPut
NvsAfterPut == total

FlushPut ==
    /\ pc = "put"
    /\ \/ nvsHours' = NvsAfterPut /\ UNCHANGED faults
       \/ UNCHANGED nvsHours /\ faults' = faults \cup {"nvs"}
    /\ pc' = "clear"
    /\ UNCHANGED <<total, pending, starts, attached, local, webPc, nvsStarts,
                   rtc, earned, conjured, events>>

RamKept == byte  \* mutant of RamAfterFlush
RamAfterFlush == 0

FlushClear ==
    /\ pc = "clear"
    /\ WriteRam(RamAfterFlush)
    /\ pc' = "idle"
    /\ UNCHANGED <<total, pending, starts, attached, local, webPc, nvsKeys, porf,
                   earned, conjured, events>>

----------------------------------------------------------------------------
(* loop() with hours due.                                                   *)
Clamped(grown) == IF grown > Top THEN Top ELSE grown

Roll ==
    /\ pc = "idle" /\ attached
    /\ \E due \in 1 .. MaxDue :
        /\ earned + due <= MaxHours
        /\ earned' = earned + due
        /\ local' = Clamped(pending + due)
    /\ pc' = "set"
    /\ faults' = Adding("reset", InReset)
    /\ UNCHANGED <<total, pending, starts, attached, webPc, nvsKeys, rtc,
                   conjured, events>>

RollSet ==
    /\ pc = "set"
    /\ pending' = local /\ local' = 0
    /\ pc' = "ram"
    /\ UNCHANGED <<total, starts, attached, webPc, nvsKeys, rtc, history>>

FlushDue == pending >= Flush

RollRam ==
    /\ pc = "ram"
    /\ WriteRam(pending)
    /\ pc' = IF FlushDue THEN "sum" ELSE "idle"
    /\ UNCHANGED <<total, pending, starts, attached, local, webPc, nvsKeys, porf,
                   earned, conjured, events>>

----------------------------------------------------------------------------
(* reset(), called by the web server task.                                  *)
ResetMembers ==
    /\ webPc = "idle"
    /\ events < MaxEvents /\ events' = events + 1
    /\ total' = 0 /\ pending' = 0 /\ starts' = 0
    /\ earned' = 0
    /\ webPc' = "put"
    /\ faults' = Adding("reset", pc # "idle" \/ ~attached)
    /\ UNCHANGED <<attached, pc, local, nvsKeys, rtc, conjured>>

ResetPut ==
    /\ webPc = "put"
    /\ \/ nvsHours' = 0 /\ nvsStarts' = 0 /\ UNCHANGED faults
       \/ UNCHANGED nvsKeys /\ faults' = faults \cup {"nvs"}
    /\ webPc' = "clear"
    /\ UNCHANGED <<total, pending, starts, attached, pc, local, rtc, earned,
                   conjured, events>>

(* Only a counter that has attached knows the RTC.                          *)
ResetClear ==
    /\ webPc = "clear"
    /\ \/ attached /\ WriteRam(0)
       \/ ~attached /\ UNCHANGED <<byte, defined, faults>>
    /\ webPc' = "idle"
    /\ UNCHANGED <<total, pending, starts, attached, pc, local, nvsKeys, porf,
                   earned, conjured, events>>

----------------------------------------------------------------------------
(* TimeService writes the clock, from NTP or a manual entry: the chip's     *)
(* power-on reset flag goes out with it.                                    *)
SyncRtc ==
    /\ porf /\ porf' = FALSE
    /\ faults' = Adding("sync", ~attached)
    /\ UNCHANGED <<device, nvsKeys, byte, defined, earned, conjured, events>>

(* begin() after a restart: the total and the starts from NVS, or zero if it *)
(* refuses.  The RTC keeps its RAM...                                       *)
BeginHours ==
    /\ events < MaxEvents /\ events' = events + 1
    /\ LET met == Adding("torn", pc = "clear") \cup Adding("reset", InReset)
       IN \/ /\ total' = nvsHours /\ starts' = nvsStarts + 1
             /\ nvsStarts' = starts'
             /\ faults' = met
          \/ /\ total' = 0 /\ starts' = 0
             /\ faults' = met \cup {"nvs"}
             /\ UNCHANGED nvsStarts
    /\ pending' = 0
    /\ attached' = FALSE /\ pc' = "idle" /\ local' = 0 /\ webPc' = "idle"
    /\ UNCHANGED <<nvsHours, earned, conjured>>

RestartHours == BeginHours /\ UNCHANGED rtc

(* ...unless its backup supply failed as well; what the byte then holds is  *)
(* not defined.                                                             *)
Outage ==
    /\ BeginHours
    /\ byte' \in 0 .. Top
    /\ porf' = TRUE /\ defined' = FALSE

Next ==
    \/ Attach
    \/ FlushSum \/ FlushTake \/ FlushPut \/ FlushClear
    \/ Roll \/ RollSet \/ RollRam
    \/ ResetMembers \/ ResetPut \/ ResetClear
    \/ SyncRtc \/ RestartHours \/ Outage

Spec == Init /\ [][Next]_vars

----------------------------------------------------------------------------
NumbersOK ==
    /\ total \in Nat /\ pending \in 0 .. Top /\ starts \in Nat
    /\ local \in Nat /\ (pc = "set" => local <= Top)
    /\ nvsHours \in Nat /\ nvsStarts \in Nat
    /\ byte \in 0 .. Top
    /\ earned \in Nat /\ conjured \in Nat /\ events \in Nat

FlagsOK ==
    /\ pc \in Steps /\ webPc \in {"idle", "put", "clear"}
    /\ attached \in BOOLEAN /\ porf \in BOOLEAN /\ defined \in BOOLEAN
    /\ faults \subseteq Faults

TypeOK == NumbersOK /\ FlagsOK

(* Most a byte can hold that goes through loop().                           *)
Most == Clamped(Flush + MaxDue - 1)

(* The two stores together never fall behind the reading by more than the   *)
(* hours being booked, and never run ahead of it by more than one byte: a   *)
(* restart at any point of loop(), attach() or flush() loses at most the    *)
(* hour it interrupted and counts at most one flush twice.  Between two     *)
(* bookings they are the reading.  The stores have to work for that, and a  *)
(* reset() has to find the counter at rest.                                 *)
Persisted ==
    (attached /\ ~InReset /\ faults \subseteq {"sync", "torn"}) =>
        /\ nvsHours + byte >= Hours - MaxDue
        /\ nvsHours + byte <= Hours + Most
        /\ pc = "idle" => nvsHours + byte = Hours

(* Losing the byte costs at most the hours since the last flush: the total  *)
(* in NVS is never further behind than that, whatever the RTC does.         *)
LossBounded ==
    attached /\ faults \subseteq {"i2c", "sync", "torn"}
        => Hours - nvsHours <= Most

(* No hour is counted twice, unless a restart tears a flush apart.          *)
CountedOnce == attached /\ faults \subseteq {"sync"} => Hours <= earned + conjured

(* A byte the counter never wrote does not enter the total, whatever resets *)
(* and restarts do, as long as the clock is not set before attach() looks.  *)
UndefinedNeverCounted == faults \cap {"sync", "i2c"} = {} => conjured = 0

(* "what the chip powers up with is not specified ... Two things rule that  *)
(* out": without a condition on when the clock is set.                      *)
UndefinedRuledOut == "i2c" \notin faults => conjured = 0

=============================================================================
