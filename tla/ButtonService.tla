--------------------------- MODULE ButtonService ----------------------------
(* One button (button_service.cpp): the contact bounces, loop() samples it  *)
(* whenever the main task comes round, and a press is short, long or very   *)
(* long. Time advances in ticks; the limits are a number of them. What a    *)
(* press does is modelled where it does it (NetManager, EtsAccess).         *)
EXTENDS Integers, FiniteSets

CONSTANTS
  Debounce, ShortMin, ShortMax, Long, VeryLong,
  BootTicks,   \* the longest setup() takes from begin() to the first loop()
  MaxStall,    \* the longest the main task keeps loop() waiting
  MaxTicks     \* bound on millis()

ASSUME LimitsOrdered ==
  /\ {Debounce, ShortMin, ShortMax, Long, VeryLong, BootTicks, MaxStall, MaxTicks} \subseteq Nat
  /\ 0 < Debounce /\ Debounce < ShortMin /\ ShortMin < ShortMax /\ ShortMax =< Long /\ Long < VeryLong

VARIABLES
  contact,     \* the button is down
  raw, pressed, changedAt, pressedAt, fired,  \* Pin
  buttonNow,   \* millis()
  lastPass,    \* when loop() sampled last
  downAt, upAt, clean  \* history: this press; it did not bounce, loop() was in time

pinVars == <<raw, pressed, changedAt, pressedAt, fired>>
buttonVars == <<contact, pinVars, buttonNow, lastPass, downAt, upAt, clean>>

(* begin() takes what it reads as settled.                                  *)
ButtonInit ==
  /\ contact \in BOOLEAN /\ raw = contact /\ pressed = contact
  /\ changedAt = 0 /\ pressedAt = 0 /\ fired = {}
  /\ buttonNow = 0 /\ lastPass = 0
  /\ downAt = 0 /\ upAt = 0 /\ clean = FALSE

(* The contact opens, closes, bounces.                                      *)
Patience == IF lastPass = 0 THEN BootTicks ELSE MaxStall
Settled == ~raw /\ ~pressed /\ buttonNow - upAt > Debounce

Tick(down) ==
  /\ buttonNow < MaxTicks /\ buttonNow - lastPass < Patience
  /\ buttonNow' = buttonNow + 1
  /\ contact' = down
  /\ downAt' = IF down /\ ~contact THEN buttonNow' ELSE downAt
  /\ upAt' = IF ~down /\ contact THEN buttonNow' ELSE upAt
  /\ clean' = (lastPass = buttonNow /\ IF down /\ ~contact THEN Settled ELSE clean)
  /\ UNCHANGED <<pinVars, lastPass>>
---------------------------------------------------------------------------
(* One pass of loop(): a change starts the debounce time, and only what has *)
(* not changed for so long is a press, a release or a button held down.     *)
Held == buttonNow - pressedAt
Fires(trigger) == fired' = fired \cup {trigger}

Changes ==
  /\ contact # raw
  /\ raw' = contact /\ changedAt' = buttonNow
  /\ UNCHANGED <<pressed, pressedAt, fired>>

Presses ==
  /\ contact /\ ~pressed
  /\ pressed' = TRUE /\ pressedAt' = buttonNow /\ fired' = {}

ShortUnbounded == Held >= ShortMin /\ fired = {}
IsShort == Held >= ShortMin /\ Held < ShortMax /\ fired = {}

Releases ==
  /\ ~contact /\ pressed
  /\ pressed' = FALSE
  /\ IF IsShort THEN Fires("short") ELSE UNCHANGED fired
  /\ UNCHANGED pressedAt

HeldDown ==
  /\ contact /\ pressed
  /\ IF Held >= VeryLong /\ "very long" \notin fired THEN Fires("very long")
     ELSE IF Held >= Long /\ "long" \notin fired THEN Fires("long")
     ELSE UNCHANGED fired
  /\ UNCHANGED <<pressed, pressedAt>>

Bouncing == contact = raw /\ buttonNow - changedAt < Debounce

Pass ==
  /\ lastPass < buttonNow /\ lastPass' = buttonNow
  /\ \/ Changes
     \/ Bouncing /\ UNCHANGED pinVars
     \/ /\ contact = raw /\ ~Bouncing /\ UNCHANGED <<raw, changedAt>>
        /\ \/ Presses \/ Releases \/ HeldDown
           \/ ~contact /\ ~pressed /\ UNCHANGED <<pressed, pressedAt, fired>>
  /\ UNCHANGED <<contact, buttonNow, downAt, upAt, clean>>

ButtonNext == Pass \/ \E down \in BOOLEAN : Tick(down)
ButtonSpec == ButtonInit /\ [][ButtonNext]_buttonVars
---------------------------------------------------------------------------
(* A press that does not bounce while loop() is in time means what its      *)
(* length says: nothing when it is noise or between short and long, short   *)
(* once it is let go, long and very long while it is held, each once; and   *)
(* no press at all, whatever the contact and the main task do, is both      *)
(* short and more (README.md:209-213, button_service.cpp:75-127).           *)
LongerThan(ticks) ==
  {t \in {"long", "very long"} : ticks >= Debounce + IF t = "long" THEN Long ELSE VeryLong}
Meaning(ticks) ==
  LongerThan(ticks - 1) \cup IF ticks \in ShortMin..(ShortMax - 1) THEN {"short"} ELSE {}

PressMeansItsLength ==
  /\ "short" \in fired => fired = {"short"}
  /\ (clean /\ lastPass = buttonNow) =>
       /\ contact /\ pressed => fired = LongerThan(buttonNow - downAt)
       /\ ~contact /\ ~pressed /\ upAt - downAt > Debounce /\ buttonNow - upAt >= Debounce
            => fired = Meaning(upAt - downAt)
=============================================================================
