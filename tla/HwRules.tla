------------------------------ MODULE HwRules -------------------------------
(* What a hardware profile may say: applyJson() of hw_config.cpp takes the  *)
(* numbers of the request into small integers, validate() judges the whole, *)
(* clampMemory() trims the rings, and what passes is the profile the other  *)
(* components take their pins from.                                         *)
(*                                                                          *)
(* A profile has the fields pins (of the fixed peripherals), buttons, leds, *)
(* btnAssign, ledAssign, i2c, eth, uart, mhz, ohms, urls, log, monitor. A   *)
(* name is a value, an invalid one is in BadNames.                          *)
EXTENDS Integers, Sequences, FiniteSets, SequencesExt

CONSTANTS
  ValidPins, OutputPins, FlashPins,  \* of the chip
  BadNames, GoodUrls,
  PsramKib, ReserveKib,
  Requests,     \* the profiles the dashboard may send
  FirstProfile  \* defaults()

VARIABLE profile

HW_PRESS_COUNT == 3
HW_LED_KIND_COUNT == 2
HW_RGB_TYPE_COUNT == 2
HW_BTNF_COUNT == 9
HW_COND_COUNT == 11
SOC_UART_NUM == 3
Fields == {"pins", "buttons", "leds", "btnAssign", "ledAssign", "i2c", "eth", "uart", "mhz", "ohms",
           "urls", "log", "monitor"}
MaxRows == [buttons |-> 8, leds |-> 8, btnAssign |-> 8, ledAssign |-> 12]

I2cPins == {"i2c_sda", "i2c_scl"}
EthBusPins == {"eth_sck", "eth_miso", "eth_mosi", "eth_cs"}
EthPins == EthBusPins \cup {"eth_irq", "eth_rst"}
FixedPins == {"knx_rx", "knx_tx", "lpc_reset", "lpc_isp"} \cup I2cPins \cup EthPins
InputPins == {"knx_rx", "eth_miso", "eth_irq"}

(* Casts of applyJson(): a number that does not fit is wrapped. A row's     *)
(* colour and pattern are names here, always known ones.                    *)
Int8(n) == ((n + 128) % 256) - 128
UInt8(n) == n % 256
UInt16(n) == n % 65536
Cast(p) ==
  [p EXCEPT !.pins = [name \in DOMAIN p.pins |-> Int8(p.pins[name])],
            !.uart = Int8(@), !.mhz = UInt8(@), !.ohms = UInt16(@),
            !.log = UInt16(@), !.monitor = UInt16(@),
            !.buttons = [i \in DOMAIN p.buttons |->
               [p.buttons[i] EXCEPT !.pin = Int8(@), !.trigger = UInt8(@)]],
            !.leds = [i \in DOMAIN p.leds |->
               [p.leds[i] EXCEPT !.pin = Int8(@), !.kind = UInt8(@), !.type = UInt8(@), !.pos = UInt8(@)]],
            !.btnAssign = [i \in DOMAIN p.btnAssign |-> [p.btnAssign[i] EXCEPT !.function = UInt8(@)]],
            !.ledAssign = [i \in DOMAIN p.ledAssign |-> [p.ledAssign[i] EXCEPT !.condition = UInt8(@)]]]
---------------------------------------------------------------------------
(* validate(), group by group. Pairs(s) are the rows compared.              *)
pinUsable(pin) == pin \in ValidPins \ FlashPins
nameValid(name) == name \notin BadNames
Pairs(rows) == {pair \in (DOMAIN rows) \X (DOMAIN rows) : pair[1] < pair[2]}
Names(rows) == {rows[i].name : i \in DOMAIN rows}
Distinct(rows) == \A pair \in Pairs(rows) : rows[pair[1]].name # rows[pair[2]].name

RowsFit(p) == \A list \in DOMAIN MaxRows : Len(p[list]) =< MaxRows[list]

ButtonsGood(p) ==
  /\ \A i \in DOMAIN p.buttons :
       LET b == p.buttons[i] IN
       nameValid(b.name) /\ b.trigger < HW_PRESS_COUNT /\ pinUsable(b.pin)
  /\ Distinct(p.buttons)
  /\ \A pair \in Pairs(p.buttons) :
       LET a == p.buttons[pair[1]]  b == p.buttons[pair[2]] IN
       ~(a.pin = b.pin /\ a.trigger = b.trigger)

OneChain(a, b) == a.kind = 1 /\ b.kind = 1 /\ a.type = b.type
MayShare(a, b) == OneChain(a, b) /\ a.pos # b.pos

LedsGood(p) ==
  /\ \A i \in DOMAIN p.leds :
       LET l == p.leds[i] IN
       /\ nameValid(l.name) /\ l.kind < HW_LED_KIND_COUNT
       /\ pinUsable(l.pin) /\ l.pin \in OutputPins
       /\ l.kind = 1 => l.type < HW_RGB_TYPE_COUNT /\ l.pos < 64
  /\ Distinct(p.leds)
  /\ \A pair \in Pairs(p.leds) :
       LET a == p.leds[pair[1]]  b == p.leds[pair[2]] IN
       a.pin = b.pin => MayShare(a, b)

AssignmentsGood(p) ==
  /\ \A i \in DOMAIN p.btnAssign :
       p.btnAssign[i].function < HW_BTNF_COUNT /\ p.btnAssign[i].target \in Names(p.buttons)
  /\ \A pair \in Pairs(p.btnAssign) :
       p.btnAssign[pair[1]].target # p.btnAssign[pair[2]].target
  /\ \A i \in DOMAIN p.ledAssign :
       p.ledAssign[i].condition < HW_COND_COUNT /\ p.ledAssign[i].target \in Names(p.leds)
  /\ \A pair \in Pairs(p.ledAssign) :
       LET a == p.ledAssign[pair[1]]  b == p.ledAssign[pair[2]] IN
       ~(a.target = b.target /\ a.condition = b.condition)

(* The entries of the last group: a fixed peripheral that is used, and each *)
(* distinct pin of the rows.                                                *)
Used(p, name) == (name \in I2cPins => p.i2c) /\ (name \in EthPins => p.eth)
Required(p) ==
  {"knx_rx", "knx_tx"} \cup (IF p.i2c THEN I2cPins ELSE {}) \cup (IF p.eth THEN EthBusPins ELSE {})
FixedEntries(p) == {<<name, p.pins[name]>> : name \in {n \in FixedPins : Used(p, n) /\ p.pins[n] >= 0}}
RowEntries(p) ==
  {<<"button", p.buttons[i].pin>> : i \in DOMAIN p.buttons}
    \cup {<<"led", p.leds[i].pin>> : i \in DOMAIN p.leds}

CanDriveAny(e) == TRUE  \* mutant of CanDrive
CanDrive(e) == e[1] \in InputPins \cup {"button"} \/ e[2] \in OutputPins

FixedGood(p) ==
  LET entries == FixedEntries(p) \cup RowEntries(p) IN
  /\ p.uart \in 0..(SOC_UART_NUM - 1)
  /\ \A name \in Required(p) : p.pins[name] >= 0
  /\ \A e \in entries : pinUsable(e[2]) /\ CanDrive(e)
  /\ \A e, f \in entries : e # f => e[2] # f[2]
  /\ p.eth => p.mhz \in 1..80
  /\ p.ohms \in {0, 3000, 5000, 9000, 15000}
  /\ p.urls \in GoodUrls

validate(p) == RowsFit(p) /\ ButtonsGood(p) /\ LedsGood(p) /\ AssignmentsGood(p) /\ FixedGood(p)

Budget == PsramKib - ReserveKib
clampMemory(p) ==
  LET log == IF p.log > Budget THEN Budget ELSE p.log IN
  IF Budget =< 0 THEN p
  ELSE [p EXCEPT !.log = log,
                 !.monitor = IF log + p.monitor > Budget THEN Budget - log ELSE p.monitor]
---------------------------------------------------------------------------
(* What defaults() is built from and what a request is parsed into have the *)
(* fields of a profile. Nothing at run time judges defaults(): that it      *)
(* passes is a property of the board's constants.                           *)
IsList(rows) == Len(rows) \in Nat /\ rows = [i \in 1..Len(rows) |-> rows[i]]
IsProfile(p) ==
  /\ p = [field \in Fields |-> p[field]]
  /\ IsList(p.buttons) /\ IsList(p.leds) /\ IsList(p.ledAssign)
  /\ p.log \in Nat /\ p.monitor \in Nat
ASSUME RulesAssumption ==
  /\ PsramKib \in Nat /\ ReserveKib \in Nat /\ ValidPins \subseteq Nat
  /\ \A p \in Requests \cup {FirstProfile} : IsProfile(p)
  /\ validate(clampMemory(FirstProfile))
---------------------------------------------------------------------------
RulesInit == profile = clampMemory(FirstProfile)

Apply(request) ==
  LET p == clampMemory(Cast(request)) IN profile' = IF validate(p) THEN p ELSE profile

RulesNext == \E request \in Requests : Apply(request)
RulesSpec == RulesInit /\ [][RulesNext]_profile
---------------------------------------------------------------------------
(* In a profile that was accepted no two parts of the device share one pin, *)
(* except rows of one button with different triggers and positions of one   *)
(* chain; every pin exists and does not carry the flash, and what does not  *)
(* only listen is on a pin that can be an output; and the two rings leave   *)
(* the reserve alone (hw_config.cpp:381-469, 543-625, README.md:185-213).   *)
Drivers(p) ==
  {<<"fixed", n, p.pins[n]>> : n \in {m \in FixedPins : Used(p, m) /\ p.pins[m] >= 0}}
    \cup {<<"button", i, p.buttons[i].pin>> : i \in DOMAIN p.buttons}
    \cup {<<"led", i, p.leds[i].pin>> : i \in DOMAIN p.leds}
MayMeet(p, d, e) ==
  \/ /\ d[1] = "button" /\ e[1] = "button"
     /\ p.buttons[d[2]].trigger # p.buttons[e[2]].trigger
  \/ /\ d[1] = "led" /\ e[1] = "led" /\ p.leds[d[2]].kind = 1 /\ p.leds[e[2]].kind = 1
     /\ p.leds[d[2]].type = p.leds[e[2]].type /\ p.leds[d[2]].pos # p.leds[e[2]].pos
Listens(d) == d[1] = "button" \/ (d[1] = "fixed" /\ d[2] \in InputPins)
PinsKeptApart ==
  /\ \A d, e \in Drivers(profile) : d[3] = e[3] /\ d # e => MayMeet(profile, d, e)
  /\ \A d \in Drivers(profile) :
       d[3] \in ValidPins \ FlashPins /\ (Listens(d) \/ d[3] \in OutputPins)
  /\ Budget > 0 => profile.log + profile.monitor =< Budget
=============================================================================
