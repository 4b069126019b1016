----------------------------- MODULE NetManager -----------------------------
(* Which interface the device runs on (net_manager.cpp, eth_interface.cpp): *)
(* the choice at the start, the wait for a station, the failover between    *)
(* Ethernet and WiFi through a restart, the WiFi watchdog, the scheduled    *)
(* restart, and the proof of the hardware profile (hw_config.cpp), which a  *)
(* failover must not forestall.                                             *)
(*                                                                          *)
(* Time is counted in ticks; every timer is an age, Unset while the code    *)
(* holds 0 in it. The main task finishes a pass between two ticks.          *)
EXTENDS Integers

CONSTANTS
  RebootDelay,   \* 2 s, loop()
  EthStable,     \* ETH_STABLE_MS, 15 s
  RetryAfter,    \* RETRY_AFTER_MS, 15 s
  ProvenAfter,   \* HW_PROVEN_MS, 20 s
  WatchdogGrace, \* WIFI_WATCHDOG_GRACE_MS, 30 s
  WatchdogRetry, \* WIFI_WATCHDOG_RETRY_MS, 30 s
  SwitchGrace,   \* SWITCH_GRACE_MS, 60 s
  Window,        \* IMPROV_WINDOW_MS, 120 s
  MaxOutside     \* bound on the requests of users and the power cuts

ASSUME TimesAssumption ==
  /\ {RebootDelay, EthStable, RetryAfter, ProvenAfter, WatchdogGrace,
      WatchdogRetry, SwitchGrace, Window} \subseteq Nat \ {0}
  /\ ProvenAfter =< SwitchGrace /\ SwitchGrace =< Window
  /\ MaxOutside \in Nat

VARIABLES
  wire,      \* ETH.linkUp() and ETH.hasIP()
  air,       \* the WiFi network answers and hands out an address
  fitted,    \* the W5500: no answer, a driver that does not start, it works
  nvs,       \* namespace sbip-net: credentials, the two switches
  phase,     \* off, waiting in waitForConnection(), running loop()
  ram,       \* members of NetManager and EthInterface, state of the radio
  uptime,    \* ticks since the start, up to Window
  passed,    \* the main task made a pass since the last tick
  proven,    \* the start counter of HwConfig is cleared
  by,        \* who asked for the pending restart: a user, or the failover,
             \* away from Ethernet or back to it
  upFor,     \* ticks the wire has been up without a break, up to Steady
  away,      \* ticks since it was Steady last, up to SwitchGrace
  watched,   \* history: the failover was not switched off since the start
  outside    \* how much of MaxOutside is spent

netVars == <<wire, air, fitted, nvs, phase, ram, uptime, passed, proven, by,
             upFor, away, watched, outside>>

Unset == -1
Ages(cap) == Unset..cap
Older(age, cap) == IF age \in {Unset, cap} THEN age ELSE age + 1
Settings == [creds : BOOLEAN, wifi : BOOLEAN, fallback : BOOLEAN]
NvsDefaults == [creds |-> FALSE, wifi |-> TRUE, fallback |-> TRUE]
Flags == {"wifi", "fallback", "eth", "ap", "station", "claimed", "wasUp",
          "retried", "wasOnline", "reboot", "erase"}

(* Two ticks more than the code asks for: a pass may see the wire a tick     *)
(* after it came up, and compare a tick after the time was over.            *)
Steady == EthStable + 2

(* The members of a fresh object.                                           *)
Fresh ==
  [wifi |-> TRUE, fallback |-> TRUE, eth |-> FALSE, ap |-> FALSE,
   station |-> FALSE, claimed |-> FALSE, wasUp |-> FALSE, retried |-> FALSE,
   wasOnline |-> FALSE, reboot |-> FALSE, erase |-> FALSE, rebootAge |-> 0,
   switch |-> Unset, agree |-> Unset, down |-> Unset, kick |-> Unset]

NetTypeOK ==
  /\ wire \in BOOLEAN /\ air \in BOOLEAN /\ passed \in BOOLEAN /\ proven \in BOOLEAN
  /\ watched \in BOOLEAN
  /\ fitted \in {"none", "mute", "works"}
  /\ nvs \in Settings
  /\ phase \in {"off", "wait", "run"}
  /\ \A f \in Flags : ram[f] \in BOOLEAN
  /\ ram.rebootAge \in 0..RebootDelay
  /\ ram.switch \in Ages(SwitchGrace) /\ ram.agree \in Ages(EthStable)
  /\ ram.down \in Ages(WatchdogGrace) /\ ram.kick \in Ages(WatchdogRetry)
  /\ uptime \in 0..Window
  /\ by \in {"nobody", "user", "away", "back"}
  /\ upFor \in 0..Steady /\ away \in 0..SwitchGrace /\ outside \in 0..MaxOutside

chipPresent == fitted # "none"
active == fitted = "works" /\ wire
isOnline == IF ram.eth THEN active ELSE ram.station /\ air

NetInit ==
  /\ wire \in BOOLEAN /\ air \in BOOLEAN
  /\ fitted \in {"none", "mute", "works"}
  /\ nvs \in Settings
  /\ phase = "off" /\ ram = Fresh
  /\ uptime = 0 /\ passed = TRUE /\ proven = FALSE /\ by = "nobody"
  /\ upFor = 0 /\ away = 0 /\ watched = TRUE /\ outside = 0
---------------------------------------------------------------------------
(* Start: without a chip WiFi and the failover cannot stay switched off.    *)
HealedWifi == nvs.wifi \/ ~chipPresent
HealedFallback == nvs.fallback \/ ~chipPresent
OnEthernet(m) == [m EXCEPT !.eth = TRUE, !.wasOnline = TRUE]
OnStation(m) == [m EXCEPT !.station = TRUE]

(* startAccessPoint(): WiFi.mode() ends the station, softAP() may refuse.   *)
OnAccessPoint(m, comesUp) == [m EXCEPT !.ap = comesUp, !.station = FALSE]

ChosenStationFirst(m, comesUp) ==
  CASE m.wifi /\ nvs.creds      -> OnStation(m)
    [] active /\ ~(m.wifi /\ nvs.creds) -> OnEthernet(m)
    [] OTHER                     -> m
Chosen(m, comesUp) ==
  CASE active                    -> OnEthernet(m)
    [] ~active /\ ~m.wifi        -> m
    [] ~active /\ m.wifi /\ nvs.creds  -> OnStation(m)
    [] OTHER                     -> OnAccessPoint(m, comesUp)

(* EthInterface::begin() waits for link and address and may give up just    *)
(* before they come.                                                        *)
Awaited(waited) ==
  [Fresh EXCEPT !.claimed = active /\ waited, !.wasUp = active /\ waited]

Begin ==
  /\ phase = "off"
  /\ nvs' = [nvs EXCEPT !.wifi = HealedWifi, !.fallback = HealedFallback]
  /\ \E comesUp \in BOOLEAN, waited \in BOOLEAN :
       ram' = Chosen([Awaited(waited) EXCEPT !.wifi = HealedWifi,
                                             !.fallback = HealedFallback], comesUp)
  /\ phase' = IF active THEN "run" ELSE "wait"
  /\ by' = "nobody" /\ away' = 0 /\ watched' = TRUE
  /\ UNCHANGED <<wire, air, fitted, uptime, passed, proven, upFor, outside>>

(* waitForConnection(), one turn: the station is tried once more, then the  *)
(* access point opens when the window closes.                               *)
Retry ==
  ~ram.ap /\ ~ram.retried /\ ~(ram.station /\ air) /\ uptime > RetryAfter

Waiting ==
  /\ phase = "wait" /\ ~isOnline /\ uptime < Window
  /\ ram' = IF Retry
            THEN [ram EXCEPT !.retried = TRUE, !.station = nvs.creds]
            ELSE ram
  /\ passed' = TRUE
  /\ UNCHANGED <<wire, air, fitted, nvs, phase, uptime, proven, by, upFor, away, watched, outside>>

WaitOver ==
  /\ phase = "wait" /\ (isOnline \/ uptime = Window)
  /\ phase' = "run" /\ passed' = FALSE
  /\ \E comesUp \in BOOLEAN :
       ram' = IF isOnline THEN [ram EXCEPT !.ap = FALSE, !.wasOnline = TRUE]
              ELSE IF ram.ap THEN ram ELSE OnAccessPoint(ram, comesUp)
  /\ UNCHANGED <<wire, air, fitted, nvs, uptime, proven, by, upFor, away, watched, outside>>
---------------------------------------------------------------------------
(* One pass of loop().                                                      *)
Off ==
  /\ phase' = "off" /\ ram' = Fresh
  /\ uptime' = 0 /\ passed' = TRUE /\ proven' = FALSE

RestartDue == ram.reboot /\ ram.rebootAge >= RebootDelay

(* EthInterface::loop(): the default route is claimed again when an address *)
(* is back, in Ethernet mode only.                                          *)
EthWatched(m) ==
  IF fitted # "works" \/ wire = m.wasUp THEN m
  ELSE [m EXCEPT !.wasUp = wire, !.claimed = m.claimed \/ (wire /\ m.eth)]

Requested(m) == [m EXCEPT !.reboot = TRUE, !.rebootAge = 0]

AgreeingAnew(m) ==
  IF m.switch = Unset THEN m
  ELSE IF m.eth THEN [m EXCEPT !.agree = 0]
  ELSE [m EXCEPT !.switch = Unset, !.agree = Unset]
Agreeing(m) ==
  LET agreeing == IF m.agree = Unset THEN 0 ELSE m.agree IN
  IF m.switch = Unset THEN m
  ELSE IF m.eth /\ agreeing < EthStable THEN [m EXCEPT !.agree = agreeing]
  ELSE [m EXCEPT !.switch = Unset, !.agree = Unset]

GraceOfTheLink(age) == age >= EthStable
GraceOver(age) == age >= SwitchGrace

MayGo == active \/ nvs.creds

Disagreeing(m) ==
  LET d == [m EXCEPT !.agree = Unset] IN
  IF ~MayGo THEN [d EXCEPT !.switch = Unset]
  ELSE IF d.switch = Unset THEN [d EXCEPT !.switch = 0]
  ELSE IF GraceOver(d.switch) THEN Requested(d)
  ELSE d

Supervised(m) ==
  IF m.reboot \/ m.ap \/ ~m.fallback \/ ~chipPresent THEN m
  ELSE IF active = m.eth THEN Agreeing(m)
  ELSE Disagreeing(m)

KickDue(age) == age = Unset \/ age >= WatchdogRetry

(* handleWifiWatchdog(), whose interval is a tick.                          *)
Watched(m) ==
  LET online == m.station /\ air
      armed == IF online /\ ~m.wasOnline
               THEN [m EXCEPT !.wasOnline = TRUE, !.down = Unset, !.kick = Unset]
               ELSE IF ~online /\ (m.wasOnline \/ m.down = Unset)
               THEN [m EXCEPT !.wasOnline = FALSE, !.down = 0]
               ELSE m
      due == ~online /\ armed.down >= WatchdogGrace /\ KickDue(armed.kick)
  IN IF passed THEN m ELSE IF due THEN [armed EXCEPT !.kick = 0] ELSE armed

Passed(m) ==
  IF m.eth THEN Supervised(m)
  ELSE IF m.ap THEN m
  ELSE Supervised(Watched(m))

Loop ==
  /\ phase = "run" /\ ~RestartDue
  /\ ram' = Passed(EthWatched(ram))
  /\ by' = IF ram'.reboot /\ ~ram.reboot THEN (IF ram.eth THEN "away" ELSE "back") ELSE by
  /\ proven' = (proven \/ uptime >= ProvenAfter)
  /\ passed' = TRUE
  /\ UNCHANGED <<wire, air, fitted, nvs, phase, uptime, upFor, away, watched, outside>>

Restart ==
  /\ phase = "run" /\ RestartDue
  /\ Off
  /\ nvs' = IF ram.erase THEN NvsDefaults ELSE nvs
  /\ UNCHANGED <<wire, air, fitted, by, upFor, away, watched, outside>>
---------------------------------------------------------------------------
(* The dashboard and the buttons.                                           *)
Outside == outside < MaxOutside /\ outside' = outside + 1

Asked(m) ==
  /\ ram' = Requested(m) /\ by' = "user"
  /\ UNCHANGED <<wire, air, fitted, phase, uptime, passed, proven, upFor, away, watched>>

ApplyCredentials ==
  /\ phase # "off" /\ Outside
  /\ nvs' = [nvs EXCEPT !.creds = TRUE]
  /\ Asked(ram)

(* The namespace holds the switches and the name as well.                   *)
ForgetCredentials ==
  /\ phase # "off" /\ Outside /\ ~ram.ap
  /\ nvs' = NvsDefaults
  /\ Asked(ram)

ToggleWifi ==
  /\ phase # "off" /\ Outside
  /\ ~ram.wifi \/ chipPresent
  /\ nvs' = [nvs EXCEPT !.wifi = ~ram.wifi]
  /\ Asked([ram EXCEPT !.wifi = ~ram.wifi])

ScheduleReboot(erase) ==
  /\ phase # "off" /\ Outside /\ UNCHANGED nvs
  /\ Asked([ram EXCEPT !.erase = ram.erase \/ erase])

SetFallback(enable) ==
  /\ phase # "off" /\ Outside /\ ~ram.ap
  /\ enable \/ chipPresent
  /\ ram' = [ram EXCEPT !.fallback = enable]
  /\ nvs' = [nvs EXCEPT !.fallback = enable]
  /\ UNCHANGED <<wire, air, fitted, phase, uptime, passed, proven, by, upFor, away>>
  /\ watched' = (watched /\ enable)

SetupButton ==
  /\ phase # "off" /\ Outside /\ ~ram.eth /\ ~ram.ap
  /\ \E comesUp \in BOOLEAN : ram' = OnAccessPoint(ram, comesUp)
  /\ UNCHANGED <<wire, air, fitted, nvs, phase, uptime, passed, proven, by, upFor, away, watched>>

(* The factory reset by button, and the power going, with another board     *)
(* fitted meanwhile or not.                                                 *)
PowerCut ==
  /\ phase # "off" /\ Outside /\ Off
  /\ fitted' \in {fitted, "none", "works"}
  /\ nvs' \in {nvs, NvsDefaults}
  /\ by' = "user"
  /\ UNCHANGED <<wire, air, upFor, away, watched>>
---------------------------------------------------------------------------
Aged(m) ==
  [m EXCEPT !.rebootAge = IF m.reboot THEN Older(m.rebootAge, RebootDelay) ELSE 0,
            !.switch = Older(m.switch, SwitchGrace),
            !.agree = Older(m.agree, EthStable),
            !.down = Older(m.down, WatchdogGrace),
            !.kick = Older(m.kick, WatchdogRetry)]

Tick ==
  /\ phase # "off" /\ passed
  /\ passed' = FALSE
  /\ uptime' = Older(uptime, Window)
  /\ ram' = Aged(ram)
  /\ upFor' = IF wire THEN Older(upFor, Steady) ELSE 0
  /\ away' = IF upFor' = Steady THEN 0 ELSE Older(away, SwitchGrace)
  /\ UNCHANGED <<wire, air, fitted, nvs, phase, proven, by, watched, outside>>

WireChanges ==
  /\ wire' = ~wire /\ upFor' = 0
  /\ UNCHANGED <<air, fitted, nvs, phase, ram, uptime, passed, proven, by, away, watched, outside>>

AirChanges ==
  /\ air' = ~air
  /\ UNCHANGED <<wire, fitted, nvs, phase, ram, uptime, passed, proven, by, upFor, away, watched, outside>>

MainTask == Begin \/ Waiting \/ WaitOver \/ Loop \/ Restart

Users ==
  \/ ApplyCredentials \/ ForgetCredentials \/ ToggleWifi \/ SetupButton
  \/ \E flag \in BOOLEAN : ScheduleReboot(flag) \/ SetFallback(flag)

NetNext == MainTask \/ Users \/ PowerCut \/ Tick \/ WireChanges \/ AirChanges

(* The main task is never starved and time goes on.                         *)
NetFair == WF_netVars(MainTask) /\ WF_netVars(Tick)

NetSpec == NetInit /\ [][NetNext]_netVars /\ NetFair
---------------------------------------------------------------------------
(* In Ethernet mode the default route is claimed whenever the watch has     *)
(* seen an address, even if begin() gave up on it (eth_interface.cpp:253).  *)
RouteClaimed == ram.eth /\ ram.wasUp => ram.claimed

(* A restart that only a failover asked for happens in a start whose        *)
(* profile is proven: a flapping cable never counts up the crash-loop guard *)
(* of HwConfig (net_manager.cpp:51-54).                                     *)
FailoverProven == [][(Restart /\ by \in {"away", "back"}) => proven]_netVars

(* The device leaves Ethernet only if the wire was not steady once during   *)
(* the whole grace period (net_manager.cpp:58-66, 461-468), in a start that *)
(* did not switch the failover off: the return in line 453 keeps the timer  *)
(* of a failover that is switched off and on again.                         *)
Leaves == by # "away" /\ by' = "away"
LeavesDeadWire == [][Leaves /\ watched => away = SwitchGrace]_netVars

(* A start after the cable was pulled never opens the access point by       *)
(* itself (net_manager.cpp:479-481); the end of the window may.             *)
FailsOverToStation == [][(Begin /\ by = "away") => ~ram'.ap]_netVars

(* Once the wire stays as it is, the device stays in the mode that fits,    *)
(* unless it has opened its access point (README.md:2889-2894).             *)
Agreed(up) ==
  /\ wire = up /\ fitted = "works" /\ ~ram.ap
  /\ nvs.creds /\ (phase # "off" => ram.fallback) /\ nvs.fallback
Matched(up) == phase = "run" /\ ram.eth = up
SettlesOnWire ==
  \A up \in BOOLEAN : <>[]Agreed(up) => <>[]Matched(up)
=============================================================================
