----------------------------- MODULE StatusLed ------------------------------
(* The status LEDs (status_led.cpp): every pass of loop() paints each LED   *)
(* in the colour of the first assignment whose condition holds, and clocks  *)
(* out the chains whose colours changed. The web task sets the brightness   *)
(* and the assignments meanwhile.                                           *)
(*                                                                          *)
(* A light is a colour and the brightness it is scaled by. The phase of a   *)
(* pattern other than steady is a free choice.                              *)
EXTENDS HwRules

CONSTANTS
  Conditions,     \* the conditions that change
  Brightnesses,
  SomeAssigns,    \* assignments the dashboard may send
  MaxLedEvents    \* bound on changes of conditions, brightness, assignments

ASSUME LedAssumption == \A rows \in SomeAssigns : IsList(rows)

VARIABLES
  holds,       \* the conditions that hold
  bright,      \* _brightness
  usable,      \* pins whose chain, or PWM channel, begin() got
  px,          \* <<pin, position>> |-> colours of a chain
  dirty,       \* pins
  shown,       \* <<pin, position>> |-> what the hardware shows
  ledAt,       \* the LED loop() paints next, Flush after the last
  toVisit,     \* the chains flush() has not come to
  flushing,    \* the chain flush() wrote and has not yet marked clean
  missed,      \* history: chains whose last transfer failed
  settled,     \* history: nothing changed since this pass began
  ledEvents

ledVars == <<profile, holds, bright, usable, px, dirty, shown, ledAt, toVisit, flushing,
             missed, settled, ledEvents>>

NoPin == -1
Flush == Len(profile.leds) + 1
Black == <<"black", 0>>
Random == <<"random", 0>>
LedsOf == DOMAIN profile.leds
IsRgb(i) == profile.leds[i].kind = 1
Place(i) == <<profile.leds[i].pin, IF IsRgb(i) THEN profile.leds[i].pos ELSE 0>>
Places == {Place(i) : i \in LedsOf}
Chains == {profile.leds[i].pin : i \in {k \in LedsOf : IsRgb(k)}}
OnPin(pin) == {place \in Places : place[1] = pin}

(* begin() claims the pins; a chain without memory or RMT is left alone, a  *)
(* plain LED without a channel is only switched. Chains come up at random.  *)
LedInit ==
  /\ validate(profile) /\ profile.leds # <<>>
  /\ holds \in SUBSET Conditions /\ bright \in Brightnesses
  /\ usable \in SUBSET {place[1] : place \in Places}
  /\ px = [place \in Places |-> Black]
  /\ dirty = Chains \cap usable
  /\ shown = [place \in Places |-> IF place[1] \in Chains THEN Random ELSE Black]
  /\ ledAt = Flush /\ toVisit = Chains /\ flushing = NoPin /\ missed = {} /\ settled = FALSE
  /\ ledEvents = 0

LedEvent == ledEvents < MaxLedEvents /\ ledEvents' = ledEvents + 1 /\ settled' = FALSE
loopVars == <<usable, px, shown, ledAt, toVisit, flushing, missed>>

(* The state of the device changes; the web task calls brightness(); loop() *)
(* of hw_config.cpp puts new assignments in place, on the same task.        *)
ConditionChanges(c) ==
  /\ LedEvent /\ holds' = IF c \in holds THEN holds \ {c} ELSE holds \cup {c}
  /\ UNCHANGED <<profile, bright, dirty, loopVars>>

Brightness(b) ==
  /\ LedEvent /\ bright' = b /\ dirty' = Chains \cap usable
  /\ UNCHANGED <<profile, holds, loopVars>>

Reassigned(rows) ==
  /\ LedEvent /\ ledAt = 1
  /\ LET p == [profile EXCEPT !.ledAssign = rows] IN profile' = IF validate(p) THEN p ELSE profile
  /\ UNCHANGED <<holds, bright, dirty, loopVars>>
---------------------------------------------------------------------------
RowHolds(i, row) == row.target = profile.leds[i].name /\ row.condition \in holds
RowsFor(i) == {j \in DOMAIN profile.ledAssign : RowHolds(i, profile.ledAssign[j])}
LastRow(i) == Max(RowsFor(i))
FirstRow(i) == Min(RowsFor(i))

Lights(row) ==
  {<<row.colour, bright>>} \cup IF row.steady THEN {} ELSE {Black}
Wanted(i) ==
  IF RowsFor(i) = {} THEN {Black} ELSE Lights(profile.ledAssign[FirstRow(i)])

(* paint(): a plain LED follows at once; a chain is marked when a colour    *)
(* changes. Without a channel any light is full brightness.                 *)
Level(pin, light) == IF pin \in usable \/ light = Black THEN light ELSE <<"on", 100>>
Marks(place, light) == px[place] # light

Paint(place, light) ==
  IF place[1] \notin Chains
  THEN shown' = [shown EXCEPT ![place] = Level(place[1], light)] /\ UNCHANGED <<px, dirty>>
  ELSE /\ IF place[1] \in usable /\ Marks(place, light)
          THEN px' = [px EXCEPT ![place] = light] /\ dirty' = dirty \cup {place[1]}
          ELSE UNCHANGED <<px, dirty>>
       /\ UNCHANGED shown

PaintNext ==
  /\ ledAt \in LedsOf
  /\ \E light \in Wanted(ledAt) : Paint(Place(ledAt), light)
  /\ ledAt' = ledAt + 1 /\ toVisit' = Chains
  /\ settled' = (settled \/ ledAt = 1)
  /\ UNCHANGED <<profile, holds, bright, usable, flushing, missed, ledEvents>>

(* flush(): without memory for the transfer the chain is not written, and   *)
(* marked clean all the same.                                               *)
Visit(pin) ==
  /\ ledAt = Flush /\ flushing = NoPin /\ pin \in toVisit
  /\ toVisit' = toVisit \ {pin}
  /\ IF pin \notin dirty THEN UNCHANGED <<flushing, shown, missed>>
     ELSE /\ flushing' = pin
          /\ \/ missed' = missed \cup {pin} /\ UNCHANGED shown
             \/ /\ missed' = missed \ {pin}
                /\ shown' = [place \in Places |-> IF place \in OnPin(pin) THEN px[place]
                                                 ELSE shown[place]]
  /\ UNCHANGED <<profile, holds, bright, usable, px, dirty, ledAt, settled, ledEvents>>

MarkClean ==
  /\ flushing # NoPin /\ flushing' = NoPin /\ dirty' = dirty \ {flushing}
  /\ UNCHANGED <<profile, holds, bright, usable, px, shown, ledAt, toVisit, missed, settled,
                 ledEvents>>

PassOver == ledAt = Flush /\ toVisit = {} /\ flushing = NoPin
PassEnds ==
  /\ PassOver /\ ledAt' = 1
  /\ UNCHANGED <<profile, holds, bright, usable, px, dirty, shown, toVisit, flushing, missed,
                 settled, ledEvents>>

LedLoop == PaintNext \/ (\E pin \in Chains : Visit(pin)) \/ MarkClean \/ PassEnds
LedNext ==
  \/ LedLoop
  \/ \E c \in Conditions : ConditionChanges(c)
  \/ \E b \in Brightnesses : Brightness(b)
  \/ \E rows \in SomeAssigns : Reassigned(rows)

LedSpec == profile = FirstProfile /\ LedInit /\ [][LedNext]_ledVars
---------------------------------------------------------------------------
(* When a pass is over and nothing changed during it, every LED shows the   *)
(* first of its rows whose condition holds, at the brightness set, however  *)
(* the change of a row, of the brightness and of the chain fell together;   *)
(* except a chain whose transfer failed (status_led.cpp:272-278, 387-443).  *)
ShowsRow(i, light) ==
  \E j \in DOMAIN profile.ledAssign :
    LET row == profile.ledAssign[j] IN
    /\ row.target = profile.leds[i].name /\ row.condition \in holds
    /\ \A k \in 1..(j - 1) :
         profile.ledAssign[k].target = row.target => profile.ledAssign[k].condition \notin holds
    /\ light = <<row.colour, bright>> \/ (light = Black /\ ~row.steady)
Dark(i) ==
  \A j \in DOMAIN profile.ledAssign :
    profile.ledAssign[j].target = profile.leds[i].name => profile.ledAssign[j].condition \notin holds

ShowsFirstRow ==
  PassOver /\ settled =>
    \A i \in LedsOf :
      Place(i)[1] \in usable \ missed =>
        LET light == shown[Place(i)] IN IF Dark(i) THEN light = Black ELSE ShowsRow(i, light)
=============================================================================
