---------------------------- MODULE TimeService -----------------------------
(* The clock (time_service.cpp): the system clock is set by the RTC chip,   *)
(* by NTP or by the user, who hands a time over from the web task; the RTC  *)
(* follows it; the time of day goes to the bus.                             *)
(*                                                                          *)
(* A time is what the clock was set from: a clock nobody set is "unset",    *)
(* one that ran on through a reset "carried". An interval of loop() may or  *)
(* may not be over.                                                         *)
EXTENDS Calendar

CONSTANTS
  Times,         \* the times the user may enter
  MaxTimeEvents  \* bound on what the user, the servers and the power do

VARIABLES
  clock,         \* what the system clock was set from last
  source,        \* _source
  everSynced,    \* _ntpEverSynced
  sntp,          \* the client: stopped, polling, an answer not yet seen
  config, storedConfig,
  pendingSet,    \* _pendingSetUtc, NoTime for 0
  taken,         \* the local of loop()
  rtc,           \* the chip: it answers, it was found, PORF, its time
  sendPending, announced,
  timeStep,
  asked, lost,   \* the last time accepted; the next store may overwrite it
  timeEvents

timeVars == <<clock, source, everSynced, sntp, config, storedConfig, pendingSet, taken,
              rtc, sendPending, announced, timeStep, asked, lost, timeEvents>>
setVars == <<pendingSet, taken, asked, lost>>
sendVars == <<sendPending, announced>>

NoTime == "none"
Configs == [enabled : BOOLEAN, ntp : BOOLEAN]
clockValid == clock # "unset"

TimeEvent == timeEvents < MaxTimeEvents /\ timeEvents' = timeEvents + 1

TimeInit ==
  /\ clock = "unset" /\ source = "none" /\ everSynced = FALSE
  /\ sntp = "stopped"
  /\ storedConfig \in Configs /\ config = storedConfig
  /\ pendingSet = NoTime /\ taken = NoTime /\ asked = NoTime /\ lost = FALSE
  /\ rtc \in [answers : BOOLEAN, present : {FALSE}, porf : BOOLEAN, time : {"old"}]
  /\ sendPending = FALSE /\ announced = NoTime
  /\ timeStep = "begin" /\ timeEvents = 0

(* startNtp().                                                              *)
Sntp(conf) == IF conf.ntp THEN "polling" ELSE "stopped"

(* refreshRtcFromSystem(): the write of the time or the one that clears the *)
(* flag may fail.                                                           *)
RtcFollows(time) ==
  IF ~rtc.present \/ time = "unset" THEN rtc' = rtc
  ELSE \/ rtc' = rtc
       \/ rtc' = [rtc EXCEPT !.time = time]
       \/ rtc' = [rtc EXCEPT !.time = time, !.porf = FALSE]

(* refreshSystemFromRtc(): a clock less than two seconds off is left alone. *)
SystemFollows(chip) ==
  \/ UNCHANGED <<clock, source>>
  \/ /\ chip.present /\ chip.answers /\ ~chip.porf
     /\ clock' = "rtc"
     /\ source' = IF source \in {"none", "carried"} THEN "rtc" ELSE source

(* begin(), after a reset the clock survives.                               *)
TimeBegin ==
  /\ timeStep = "begin" /\ timeStep' = "idle"
  /\ config' = storedConfig /\ sntp' = Sntp(storedConfig)
  /\ rtc' \in {rtc, [rtc EXCEPT !.present = rtc.answers]}
  /\ \/ /\ rtc'.present /\ rtc'.answers /\ ~rtc'.porf
        /\ clock' = "rtc" /\ source' = "rtc"
     \/ UNCHANGED clock /\ source' = IF clockValid THEN "carried" ELSE "none"
  /\ UNCHANGED <<everSynced, storedConfig, setVars, sendVars, timeEvents>>
---------------------------------------------------------------------------
(* The web task. requestSetUtc() accepts what lies in the past decade or    *)
(* later; the main task may be between its read and its store.              *)
RequestSet(t) ==
  /\ TimeEvent /\ timeStep # "begin"
  /\ pendingSet' = t /\ asked' = t
  /\ lost' = (timeStep = "clear")
  /\ UNCHANGED <<clock, source, everSynced, sntp, config, storedConfig, taken, rtc,
                 sendVars, timeStep>>

ApplyConfig(conf) ==
  /\ TimeEvent /\ timeStep # "begin"
  /\ config' = conf /\ storedConfig' = conf /\ sntp' = Sntp(conf)
  /\ sendPending' = TRUE
  /\ UNCHANGED <<clock, source, everSynced, setVars, rtc, announced, timeStep>>

RequestSend ==
  /\ TimeEvent /\ timeStep # "begin" /\ sendPending' = TRUE
  /\ UNCHANGED <<clock, source, everSynced, sntp, config, storedConfig, setVars, rtc,
                 announced, timeStep>>

(* The SNTP client steps the clock by itself and leaves its status.         *)
SntpAnswers ==
  /\ TimeEvent /\ sntp # "stopped" /\ timeStep # "begin"
  /\ clock' = "ntp" /\ sntp' = "completed"
  /\ UNCHANGED <<source, everSynced, config, storedConfig, setVars, rtc, sendVars, timeStep>>

RtcChanges ==
  /\ TimeEvent /\ rtc' = [rtc EXCEPT !.answers = ~rtc.answers]
  /\ UNCHANGED <<clock, source, everSynced, sntp, config, storedConfig, setVars, sendVars,
                 timeStep>>

TimeRestart ==
  /\ TimeEvent /\ timeStep # "begin"
  /\ timeStep' = "begin"
  /\ clock' \in {"unset", IF clock = "unset" THEN "unset" ELSE "carried"}
  /\ source' = "none" /\ everSynced' = FALSE /\ sntp' = "stopped"
  /\ pendingSet' = NoTime /\ taken' = NoTime /\ asked' = NoTime /\ lost' = FALSE
  /\ rtc' \in {[rtc EXCEPT !.present = FALSE], [rtc EXCEPT !.present = FALSE, !.porf = TRUE]}
  /\ sendPending' = FALSE /\ announced' = NoTime
  /\ UNCHANGED <<config, storedConfig>>
---------------------------------------------------------------------------
(* One pass of loop().                                                      *)
TakeRequest ==
  /\ timeStep = "idle"
  /\ taken' = pendingSet
  /\ timeStep' = IF pendingSet = NoTime THEN "track" ELSE "clear"
  /\ UNCHANGED <<clock, source, everSynced, sntp, config, storedConfig, pendingSet, rtc,
                 sendVars, asked, lost, timeEvents>>

ClearRequest ==
  /\ timeStep = "clear" /\ timeStep' = "apply"
  /\ pendingSet' = NoTime
  /\ UNCHANGED <<clock, source, everSynced, sntp, config, storedConfig, taken, rtc,
                 sendVars, asked, lost, timeEvents>>

AppliedIfUnsynced == IF everSynced THEN clock ELSE taken
Applied == taken

ApplyUtc ==
  /\ timeStep = "apply" /\ timeStep' = "track"
  /\ clock' = Applied
  /\ source' = IF everSynced THEN "ntp" ELSE "manual"
  /\ RtcFollows(taken)
  /\ sendPending' = TRUE
  /\ UNCHANGED <<everSynced, sntp, config, storedConfig, setVars, announced, timeEvents>>

TrackNtp ==
  /\ timeStep = "track" /\ timeStep' = "rtc"
  /\ \/ UNCHANGED <<source, everSynced, sntp, rtc, sendPending>>
     \/ /\ config.ntp /\ sntp = "completed"
        /\ sntp' = "polling" /\ source' = "ntp" /\ everSynced' = TRUE
        /\ sendPending' = (sendPending \/ ~everSynced)
        /\ RtcFollows(clock)
  /\ UNCHANGED <<clock, config, storedConfig, setVars, announced, timeEvents>>

(* The chip is looked for until it is found; then one follows the other.    *)
WatchRtc ==
  /\ timeStep = "rtc" /\ timeStep' = "send"
  /\ \/ UNCHANGED <<clock, source, rtc>>
     \/ /\ ~rtc.present /\ rtc.answers /\ rtc' = [rtc EXCEPT !.present = TRUE]
        /\ SystemFollows(rtc')
     \/ rtc.present /\ source # "ntp" /\ SystemFollows(rtc) /\ UNCHANGED rtc
     \/ rtc.present /\ source = "ntp" /\ RtcFollows(clock) /\ UNCHANGED <<clock, source>>
  /\ UNCHANGED <<everSynced, sntp, config, storedConfig, setVars, sendVars, timeEvents>>

(* sendNow(), with the quality bit; the link may refuse every group value.  *)
Announces ==
  \/ UNCHANGED announced
  \/ clockValid /\ announced' = IF source = "ntp" THEN "synced" ELSE "free"

SendTime ==
  /\ timeStep = "send" /\ timeStep' = "idle"
  /\ IF ~config.enabled THEN UNCHANGED sendVars
     ELSE sendPending' = FALSE /\ Announces
  /\ UNCHANGED <<clock, source, everSynced, sntp, config, storedConfig, setVars, rtc,
                 timeEvents>>

TimeLoop == TakeRequest \/ ClearRequest \/ ApplyUtc \/ TrackNtp \/ WatchRtc \/ SendTime

TimeNext ==
  \/ TimeBegin \/ TimeLoop
  \/ \E t \in Times : RequestSet(t)
  \/ \E conf \in Configs : ApplyConfig(conf)
  \/ RequestSend \/ SntpAnswers \/ RtcChanges \/ TimeRestart

TimeSpec == TimeInit /\ [][TimeNext]_timeVars /\ WF_timeVars(TimeBegin \/ TimeLoop)
---------------------------------------------------------------------------
(* A time the dashboard accepted becomes the time of the clock, unless      *)
(* another one, or a restart, comes first (time_service.h, requestSetUtc);  *)
(* one that arrives between the read and the store of loop() may be lost    *)
(* (time_service.cpp:553-554).                                              *)
SetApplied ==
  \A t \in Times : (pendingSet = t /\ ~lost) ~> (clock = t \/ asked # t)

(* An accepted time leaves the hand of the web task only into that of       *)
(* loop(), which is about to set it, though read and clear are two steps.   *)
HandedOver ==
  [][(pendingSet # NoTime /\ pendingSet' # pendingSet /\ ~lost /\ asked' = pendingSet)
       => timeStep' = "apply" /\ taken' = pendingSet]_timeVars

=============================================================================
