----------------------------- MODULE MCServices -----------------------------
(* The services that keep to themselves, side by side: what they exchange   *)
(* is an open choice of each module, so a behaviour of the device is one of *)
(* each of them. A behaviour here moves one, the others rest; the check of  *)
(* all of them is the sum of their state spaces, not the product.           *)
EXTENDS OtaService, TimeService, LogBuffer, ButtonService, StatusLed, WebServer, Auth

VARIABLE active
Services == {"ota", "time", "log", "button", "rules", "leds", "web", "auth"}

(* The profile the dashboard starts from, and the ones it sends.            *)
Base ==
  [pins |-> [n \in FixedPins |-> CASE n = "knx_rx" -> 0 [] n = "knx_tx" -> 1
               [] n = "i2c_sda" -> 2 [] n = "i2c_scl" -> 3 [] OTHER -> -1],
   buttons |-> <<>>, leds |-> <<>>, btnAssign |-> <<>>, ledAssign |-> <<>>,
   i2c |-> FALSE, eth |-> FALSE, uart |-> 1, mhz |-> 20, ohms |-> 0, urls |-> "https",
   log |-> 512, monitor |-> 512]
Led == [name |-> "l1", pin |-> 2, kind |-> 1, type |-> 0, pos |-> 0]
Button(name, pin, trigger) == [name |-> name, pin |-> pin, trigger |-> trigger]
Row(name, c, colour, steady) ==
  [target |-> name, condition |-> c, colour |-> colour, steady |-> steady]

ButtonRequests ==
  {[Base EXCEPT !.buttons = <<Button(n, p, t), Button(m, q, u)>>, !.leds = <<Led>>] :
     n \in {"b1", "~"}, p \in {2, 4, 258}, t \in {0, 257},
     m \in {"b1", "b2"}, q \in {-1, 4, 5, 8, 9}, u \in {0, 1, 3}}
LedRequests ==
  {[Base EXCEPT !.leds = <<[Led EXCEPT !.pin = pin, !.kind = kind], other>>, !.i2c = i] :
     pin \in {2, 4, 5}, kind \in {0, 1}, i \in BOOLEAN,
     other \in [name : {"l1", "l2"}, pin : {2, 4}, kind : {0, 1}, type : {0, 1}, pos : {0, 1}]}
MemoryRequests ==
  {[Base EXCEPT !.log = l, !.monitor = m] : l, m \in {0, 512, 2000}}
EthRequests ==
  {[Base EXCEPT !.i2c = i, !.eth = e,
       !.pins = [Base.pins EXCEPT !["eth_cs"] = cs, !["eth_sck"] = 4, !["eth_miso"] = miso,
                                  !["eth_mosi"] = mosi, !["eth_irq"] = irq]] :
     i, e \in BOOLEAN, cs \in {-1, 2, 7}, miso \in {2, 5}, mosi \in {5, 6}, irq \in {-1, 5, 8}}
RowRequests ==
  {[Base EXCEPT !.leds = <<Led>>, !.ledAssign = <<Row(t, c, "red", TRUE), Row("l1", d, "red", TRUE)>>] :
     t \in {"l1", "l2"}, c \in {0, 1, 11, 257}, d \in {0, 1}}
SomeRequests == ButtonRequests \cup LedRequests \cup MemoryRequests \cup EthRequests \cup RowRequests

(* Two LEDs on one chain and a plain one.                                   *)
LedBase ==
  [Base EXCEPT !.leds = <<Led, [Led EXCEPT !.name = "l2", !.pos = 1],
                          [Led EXCEPT !.name = "l3", !.pin = 4, !.kind = 0]>>,
               !.ledAssign = <<Row("l1", 0, "red", FALSE), Row("l2", 1, "blue", TRUE),
                               Row("l1", 1, "green", TRUE), Row("l3", 0, "white", TRUE)>>]
Assigns ==
  {LedBase.ledAssign,
   <<Row("l1", 1, "blue", TRUE), Row("l2", 1, "red", TRUE), Row("l1", 0, "red", TRUE)>>,
   <<Row("l4", 0, "red", TRUE)>>}

(* A service that rests has one initial state.                              *)
LedsDark ==
  /\ holds = {} /\ bright = 0 /\ usable = {} /\ px = <<>> /\ dirty = {} /\ shown = <<>>
  /\ ledAt = 0 /\ toVisit = {} /\ flushing = NoPin /\ missed = {} /\ settled = FALSE
  /\ ledEvents = 0

Init ==
  /\ active \in Services
  /\ OtaInit /\ LogInit /\ AuthInit /\ RulesInit
  /\ TimeInit /\ (active # "time" => ~storedConfig.enabled /\ ~storedConfig.ntp
                                     /\ ~rtc.answers /\ ~rtc.porf)
  /\ ButtonInit /\ (active # "button" => ~contact)
  /\ WebInit /\ (active # "web" => ~apMode)
  /\ IF active = "leds" THEN LedInit ELSE LedsDark

ledOwnVars == <<holds, bright, usable, px, dirty, shown, ledAt, toVisit, flushing, missed,
                settled, ledEvents>>
Only(name, step) == active = name /\ step
vars == <<active, otaVars, timeVars, logVars, buttonVars, ledVars, webVars, authVars>>

Next ==
  /\ UNCHANGED active
  /\ \/ Only("ota", OtaNext) /\ UNCHANGED <<timeVars, logVars, buttonVars, ledVars, webVars, authVars>>
     \/ Only("time", TimeNext) /\ UNCHANGED <<otaVars, logVars, buttonVars, ledVars, webVars, authVars>>
     \/ Only("log", LogNext) /\ UNCHANGED <<otaVars, timeVars, buttonVars, ledVars, webVars, authVars>>
     \/ Only("button", ButtonNext) /\ UNCHANGED <<otaVars, timeVars, logVars, ledVars, webVars, authVars>>
     \/ Only("rules", RulesNext)
          /\ UNCHANGED <<otaVars, timeVars, logVars, buttonVars, ledOwnVars, webVars, authVars>>
     \/ Only("leds", LedNext) /\ UNCHANGED <<otaVars, timeVars, logVars, buttonVars, webVars, authVars>>
     \/ Only("web", WebNext) /\ UNCHANGED <<otaVars, timeVars, logVars, buttonVars, ledVars, authVars>>
     \/ Only("auth", AuthNext) /\ UNCHANGED <<otaVars, timeVars, logVars, buttonVars, ledVars, webVars>>

Spec ==
  /\ Init /\ [][Next]_vars
  /\ \A c \in Checks : WF_otaVars(Only("ota", CheckStep(c)))
  /\ \A i \in Installs : WF_otaVars(Only("ota", InstallStep(i)))
  /\ WF_timeVars(Only("time", TimeBegin \/ TimeLoop))
=============================================================================
