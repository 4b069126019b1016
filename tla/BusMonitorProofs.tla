-------------------------- MODULE BusMonitorProofs --------------------------
(***************************************************************************)
(* Proofs about BusMonitor for every capacity, tail length and set of      *)
(* requests, with both tasks running into each other's calls at any step   *)
(* and a restart at any step.                                              *)
(***************************************************************************)
EXTENDS BusMonitor, TLAPS

(* A remainder is a slot number.                                            *)
LEMMA Remainder ==
    ASSUME NEW c \in Nat \ {0}, NEW x \in Int
    PROVE  x % c \in 0 .. c - 1
OBVIOUS

(* An unused slot holds a frame like any other.                             *)
LEMMA BlankIsFrame == Blank \in Frame
BY LimitAssumption DEF Blank, Frame

RingOK ==
    /\ ring \in [Slots -> Frame] /\ head \in Slots
    /\ count \in 0 .. Capacity /\ written \in Nat
TailOK ==
    /\ tail \in [0 .. Tail - 1 -> Frame] /\ tailHead \in 0 .. Tail - 1
    /\ tailCount \in 0 .. Tail
NumbersOK ==
    /\ triggerSeq \in 0 .. SeqMod - 1 /\ missed \in Nat
    /\ frames \in 0 .. MaxFrames /\ run \in Nat /\ runStart \in Nat
    /\ armedAt \in Nat /\ after \in Int
FlagsOK ==
    /\ avail \in BOOLEAN /\ state \in States /\ triggered \in BOOLEAN
    /\ tailValid \in BOOLEAN /\ fired \in BOOLEAN /\ disturbed \in BOOLEAN
TasksOK ==
    /\ cfg \in Settings
    /\ main \in [at : MainSteps, frame : Frame, seen : States]
    /\ web \in [at : WebSteps, req : Settings]

(* The parts are the whole of TypeOK.                                       *)
LEMMA Parts ==
    TypeOK <=> RingOK /\ TailOK /\ NumbersOK /\ FlagsOK /\ TasksOK
BY DEF TypeOK, RingOK, TailOK, NumbersOK, FlagsOK, TasksOK

(* The first boot.                                                          *)
LEMMA InitTyped == Init => TypeOK
<1> SUFFICES ASSUME Init PROVE TypeOK
  OBVIOUS
<1>1. RingOK
  BY LimitAssumption, BlankIsFrame DEF Init, RingOK, Slots
<1>2. TailOK
  BY LimitAssumption, BlankIsFrame DEF Init, TailOK
<1>3. NumbersOK
  BY LimitAssumption DEF Init, NumbersOK
<1>4. FlagsOK
  BY Zenon DEF Init, FlagsOK, States
<1>5. Defaults \in Settings /\ Idle \in [at : MainSteps, frame : Frame, seen : States]
  BY BlankIsFrame DEF Defaults, Settings, Idle, MainSteps, States
<1>6. TasksOK
  BY <1>5 DEF Init, TasksOK, WebSteps
<1>7. QED
  BY <1>1, <1>2, <1>3, <1>4, <1>6, Parts

(* What carryOver() puts in the ring.                                       *)
LEMMA CarryOverTyped ==
    ASSUME TailOK, NEW n \in 0 .. Tail, CarryOver(n)
    PROVE  /\ ring' \in [Slots -> Frame] /\ head' \in Slots
           /\ count' \in 0 .. Capacity /\ written' \in Nat
           /\ TailOK'
<1>1. \A i \in Slots : (First(n) + i) % Tail \in 0 .. Tail - 1
  <2> TAKE i \in Slots
  <2>1. First(n) \in Int
    BY LimitAssumption, Remainder, tailHead + Tail - n \in Int DEF TailOK, First
  <2>2. QED
    BY <2>1, LimitAssumption, Remainder, First(n) + i \in Int DEF Slots
<1>2. ring' \in [Slots -> Frame]
  BY <1>1, BlankIsFrame DEF CarryOver, TailOK
<1>3. head' \in Slots /\ count' \in 0 .. Capacity /\ written' \in Nat
  BY LimitAssumption, Remainder, SMTT(20) DEF CarryOver, Slots
<1>4. TailOK'
  BY LimitAssumption DEF CarryOver, TailOK
<1>5. QED
  BY <1>2, <1>3, <1>4

(* The ring stays in its bounds.                                            *)
LEMMA NextRing == TypeOK /\ [Next]_vars => RingOK'
<1> SUFFICES ASSUME TypeOK, [Next]_vars PROVE RingOK'
  OBVIOUS
<1> USE DEF RingOK
<1>1. RingOK /\ TailOK /\ main.frame \in Frame /\ cfg.pre \in Nat
  BY Parts DEF TasksOK, Settings
<1>2. CASE Append
  <2>1. head' \in Slots
    BY <1>1, <1>2, LimitAssumption, Remainder, head + 1 \in Int
    DEF Append, NextSlot, Slots
  <2>2. count' \in 0 .. Capacity
    BY <1>1, <1>2, LimitAssumption DEF Append, CountAfter, Limit
  <2>3. QED
    BY <1>1, <1>2, <2>1, <2>2 DEF Append
<1>3. CASE ClearRing
  BY <1>1, <1>3, LimitAssumption DEF ClearRing, Slots
<1>4. ASSUME NEW kept \in BOOLEAN, Restart(kept) PROVE RingOK'
  <2>2. CASE avail'
    <3>1. Carried(kept) \in 0 .. Tail
      BY <1>1, LimitAssumption DEF Carried, TailOK
    <3>2. QED
      BY <1>1, <1>4, <2>2, <3>1, CarryOverTyped DEF Restart
  <2>3. CASE ~avail'
    BY <1>4, <2>3, LimitAssumption, BlankIsFrame
    DEF Restart, NoRing, Slots
  <2>4. QED
    BY <2>2, <2>3
<1>5. CASE UNCHANGED buffer
  BY <1>1, <1>5 DEF buffer
<1>6. CASE UNCHANGED vars
  BY <1>5, <1>6 DEF vars
<1>7. CASE MainTask
  BY <1>2, <1>5, <1>7
  DEF MainTask, Arrive, RememberHead, RememberCount, Gate, Overflow, Trigger,
      Settle
<1>8. CASE WebTask
  BY <1>3, <1>5, <1>8
  DEF WebTask, StartOff, Configure, Go, Stop, ClearTrigger
<1>9. QED
  BY <1>4, <1>6, <1>7, <1>8 DEF Next

(* So does the tail in RTC memory.                                          *)
LEMMA NextTail == TypeOK /\ [Next]_vars => TailOK'
<1> SUFFICES ASSUME TypeOK, [Next]_vars PROVE TailOK'
  OBVIOUS
<1>1. TailOK /\ frames \in Nat /\ run \in Nat
  BY Parts DEF NumbersOK
<1>2. CASE Arrive
  <2>1. PICK f \in Frame, slot \in 0 .. Tail - 1 :
          tail' = [tail EXCEPT ![slot] = f] /\ tailHead' = slot
    <3>1. PICK side \in Sides, event \in BOOLEAN :
            LET f == [n |-> frames + 1, side |-> side, event |-> event,
                      run |-> run]
                slot == IF tailValid THEN tailHead ELSE 0
            IN tail' = [tail EXCEPT ![slot] = f] /\ tailHead' = slot
      BY <1>2 DEF Arrive
    <3>2. [n |-> frames + 1, side |-> side, event |-> event, run |-> run]
            \in Frame
      BY <1>1 DEF Frame
    <3>3. (IF tailValid THEN tailHead ELSE 0) \in 0 .. Tail - 1
      BY <1>1, LimitAssumption DEF TailOK
    <3>4. QED
      BY <3>1, <3>2, <3>3
  <2>2. tailCount' \in 0 .. Tail
    BY <1>1, <1>2, LimitAssumption DEF Arrive, TailOK
  <2>3. QED
    BY <1>1, <2>1, <2>2 DEF TailOK
<1>3. CASE RememberHead
  BY <1>1, <1>3, LimitAssumption, Remainder, tailHead + 1 \in Int
  DEF RememberHead, TailOK
<1>4. CASE RememberCount
  BY <1>1, <1>4, LimitAssumption DEF RememberCount, TailOK
<1>5. ASSUME NEW kept \in BOOLEAN, Restart(kept) PROVE TailOK'
  BY <1>1, <1>5, LimitAssumption DEF Restart, CarryOver, NoRing, TailOK
<1>6. CASE UNCHANGED rtc
  BY <1>1, <1>6 DEF rtc, TailOK
<1>7. CASE UNCHANGED vars
  BY <1>6, <1>7 DEF vars
<1>8. CASE MainTask
  BY <1>2, <1>3, <1>4, <1>6, <1>8
  DEF MainTask, Gate, Overflow, Append, Trigger, Settle
<1>9. CASE WebTask
  BY <1>6, <1>9
  DEF WebTask, StartOff, Configure, Go, Stop, ClearRing, ClearTrigger
<1>10. QED
  BY <1>5, <1>7, <1>8, <1>9 DEF Next

(* The counters stay counters.                                              *)
LEMMA NextNumbers == TypeOK /\ [Next]_vars => NumbersOK'
<1> SUFFICES ASSUME TypeOK, [Next]_vars PROVE NumbersOK'
  OBVIOUS
<1>1. NumbersOK /\ written \in Nat
  BY Parts DEF RingOK
<1>2. CASE Arrive
  BY <1>1, <1>2, LimitAssumption DEF Arrive, NumbersOK, recording, history
<1>3. CASE RememberHead
  BY <1>1, <1>3 DEF RememberHead, NumbersOK, recording, history, bus
<1>4. CASE RememberCount
  BY <1>1, <1>4 DEF RememberCount, NumbersOK, recording, history, bus
<1>5. CASE Gate
  BY <1>1, <1>5 DEF Gate, NumbersOK, recording, bus
<1>6. CASE Overflow
  BY <1>1, <1>6 DEF Overflow, NumbersOK, bus
<1>7. CASE Append
  BY <1>1, <1>7 DEF Append, NumbersOK, recording, bus
<1>8. CASE Trigger
  <2>1. triggerSeq' \in 0 .. SeqMod - 1
    BY <1>1, <1>8, LimitAssumption, Remainder, written - 1 \in Int
    DEF Trigger, TriggerNow
  <2>2. QED
    BY <1>1, <1>8, <2>1 DEF Trigger, NumbersOK, bus
<1>9. CASE Settle
  BY <1>1, <1>9 DEF Settle, NumbersOK, history, bus
<1>10. CASE StartOff
  BY <1>1, <1>10 DEF StartOff, NumbersOK, bus
<1>11. CASE Configure
  BY <1>1, <1>11, LimitAssumption DEF Configure, NumbersOK, bus
<1>12. CASE Go
  BY <1>1, <1>12 DEF Go, NumbersOK, bus
<1>13. CASE Stop
  BY <1>1, <1>13 DEF Stop, NumbersOK, bus
<1>14. CASE ClearRing
  BY <1>1, <1>14 DEF ClearRing, NumbersOK, recording, bus
<1>15. CASE ClearTrigger
  BY <1>1, <1>15, LimitAssumption DEF ClearTrigger, NumbersOK, history, bus
<1>16. ASSUME NEW kept \in BOOLEAN, Restart(kept) PROVE NumbersOK'
  BY <1>1, <1>16, LimitAssumption DEF Restart, Fresh, NumbersOK
<1>17. CASE UNCHANGED vars
  BY <1>1, <1>17 DEF vars, NumbersOK, recording, history, bus
<1>18. QED
  BY <1>2, <1>3, <1>4, <1>5, <1>6, <1>7, <1>8, <1>9, <1>10, <1>11, <1>12,
     <1>13, <1>14, <1>15, <1>16, <1>17 DEF Next, MainTask, WebTask

(* The flags stay flags, and the recording in one of its four states.       *)
LEMMA NextFlags == TypeOK /\ [Next]_vars => FlagsOK'
<1> SUFFICES ASSUME TypeOK, [Next]_vars PROVE FlagsOK'
  OBVIOUS
<1>1. FlagsOK
  BY Parts
<1> USE <1>1 DEF FlagsOK, States
<1>2. CASE Arrive
  BY <1>2, Zenon DEF Arrive, buffer, recording, history
<1>3. CASE RememberHead
  BY <1>3, Zenon DEF RememberHead, buffer, recording, history
<1>4. CASE RememberCount
  BY <1>4, Zenon DEF RememberCount, buffer, recording, history
<1>5. CASE Gate
  BY <1>5, Zenon DEF Gate, buffer, recording, rtc
<1>6. CASE Overflow
  BY <1>6, Zenon DEF Overflow, Disturb, buffer, rtc
<1>7. CASE Append
  BY <1>7, Zenon DEF Append, Disturb, recording, rtc
<1>8. CASE Trigger
  BY <1>8, Zenon DEF Trigger, Disturb, buffer, rtc
<1>9. CASE Settle
  BY <1>9, Zenon DEF Settle, Disturb, buffer, rtc, history
<1>10. CASE StartOff
  <2>1. disturbed' \in BOOLEAN
    BY <1>10, SMT DEF StartOff, Capturing
  <2>2. QED
    BY <1>10, <2>1, Zenon DEF StartOff, buffer, rtc
<1>11. CASE Configure
  BY <1>11, Zenon DEF Configure, Disturb, buffer, rtc
<1>12. CASE Go
  BY <1>12, Zenon DEF Go, Disturb, buffer, rtc
<1>13. CASE Stop
  BY <1>13, Zenon DEF Stop, Disturb, buffer, rtc
<1>14. CASE ClearRing
  BY <1>14, Zenon DEF ClearRing, Disturb, recording, rtc
<1>15. CASE ClearTrigger
  BY <1>15, Zenon DEF ClearTrigger, Disturb, buffer, rtc, history
<1>16. ASSUME NEW kept \in BOOLEAN, Restart(kept) PROVE FlagsOK'
  <2>1. avail' \in BOOLEAN
    BY <1>16, Zenon DEF Restart
  <2>2. tailValid' \in BOOLEAN
    BY <1>16, Zenon DEF Restart, CarryOver, NoRing
  <2>3. QED
    BY <1>16, <2>1, <2>2, Zenon DEF Restart, Fresh
<1>17. CASE UNCHANGED vars
  BY <1>17, Zenon DEF vars, buffer, recording, rtc, history
<1>18. QED
  BY <1>2, <1>3, <1>4, <1>5, <1>6, <1>7, <1>8, <1>9, <1>10, <1>11, <1>12,
     <1>13, <1>14, <1>15, <1>16, <1>17 DEF Next, MainTask, WebTask

(* The calls in progress keep their shape.                                  *)
LEMMA NextTasks == TypeOK /\ [Next]_vars => TasksOK'
<1> SUFFICES ASSUME TypeOK, [Next]_vars PROVE TasksOK'
  OBVIOUS
<1>1. TasksOK /\ FlagsOK /\ frames \in Nat /\ run \in Nat
  BY Parts DEF NumbersOK
<1>2. Idle \in [at : MainSteps, frame : Frame, seen : States]
  BY BlankIsFrame DEF Idle, MainSteps, States
<1>3. Defaults \in Settings
  BY DEF Defaults, Settings
<1> USE DEF TasksOK, MainSteps
<1>4. CASE Arrive
  <2>1. PICK side \in Sides, event \in BOOLEAN :
          main' = [at |-> "head",
                   frame |-> [n |-> frames + 1, side |-> side,
                              event |-> event, run |-> run],
                   seen |-> "off"]
    BY <1>4 DEF Arrive
  <2>2. QED
    BY <1>1, <1>4, <2>1 DEF Arrive, recording, Frame, States
<1>5. CASE RememberHead \/ RememberCount
  BY <1>1, <1>5 DEF RememberHead, RememberCount, recording
<1>6. CASE Gate
  BY <1>1, <1>2, <1>6 DEF Gate, recording, FlagsOK
<1>7. CASE Overflow \/ Trigger \/ Settle
  BY <1>1, <1>2, <1>7 DEF Overflow, Trigger, Settle
<1>8. CASE Append
  BY <1>1, <1>8 DEF Append, recording
<1>9. CASE StartOff
  BY <1>1, <1>9, RequestsAssumption DEF StartOff, WebSteps
<1>10. CASE Configure
  <2>1. web.req \in Settings
    BY <1>1
  <2>2. Clipped(web.req.pre) \in Nat
    BY <2>1, LimitAssumption DEF Clipped, Settings
  <2>3. cfg' \in Settings
    BY <1>10, <2>1, <2>2 DEF Configure, Settings
  <2>4. QED
    BY <1>1, <1>10, <2>3 DEF Configure, WebSteps
<1>11. CASE Go \/ ClearTrigger
  BY <1>1, <1>11 DEF Go, ClearTrigger, WebSteps
<1>12. CASE Stop
  BY <1>1, <1>12 DEF Stop
<1>13. CASE ClearRing
  BY <1>1, <1>13 DEF ClearRing, recording, WebSteps
<1>14. ASSUME NEW kept \in BOOLEAN, Restart(kept) PROVE TasksOK'
  BY <1>2, <1>3, <1>14 DEF Restart, Fresh, WebSteps
<1>15. CASE UNCHANGED vars
  BY <1>1, <1>15 DEF vars, recording
<1>16. QED
  BY <1>4, <1>5, <1>6, <1>7, <1>8, <1>9, <1>10, <1>11, <1>12, <1>13, <1>14,
     <1>15 DEF Next, MainTask, WebTask

(* TypeOK holds in every reachable state: the head and the count of the     *)
(* ring in PSRAM and of the tail in RTC memory never leave their arrays,    *)
(* even when a restart hits remember() between the head and the count.      *)
THEOREM TypeCorrect == Spec => []TypeOK
<1>1. TypeOK /\ [Next]_vars => TypeOK'
  <2> SUFFICES ASSUME TypeOK, [Next]_vars PROVE TypeOK'
    OBVIOUS
  <2>1. RingOK' /\ TailOK' /\ NumbersOK' /\ FlagsOK' /\ TasksOK'
    BY NextRing, NextTail, NextNumbers, NextFlags, NextTasks
  <2>2. QED
    BY <2>1 DEF TypeOK, RingOK, TailOK, NumbersOK, FlagsOK, TasksOK
<1>2. QED
  BY <1>1, InitTyped, PTL DEF Spec

-----------------------------------------------------------------------------
(* The constants as the arithmetic below uses them.                         *)
LEMMA Sizes == Capacity \in Nat \ {0} /\ Slots = 0 .. Capacity - 1
BY LimitAssumption DEF Slots

(* at() counts back from the head, around the end of the ring.              *)
LEMMA SlotFormula ==
    ASSUME NEW h \in Slots, NEW d \in 1 .. Capacity
    PROVE  /\ (h + Capacity - d) % Capacity =
                 IF h < d THEN h + Capacity - d ELSE h - d
           /\ (h + Capacity - d) % Capacity \in Slots
<1>1. h \in 0 .. Capacity - 1
  BY Sizes
<1>2. (h + Capacity - d) % Capacity = IF h < d THEN h + Capacity - d ELSE h - d
  BY <1>1, Sizes
<1>3. QED
  BY <1>1, <1>2, Sizes

(* The head moves on by one, around the end of the ring.                    *)
LEMMA NextSlotFormula ==
    ASSUME NEW h \in Slots
    PROVE  NextSlot(h) = IF h = Capacity - 1 THEN 0 ELSE h + 1
<1>1. h \in 0 .. Capacity - 1
  BY Sizes
<1>2. QED
  BY <1>1, Sizes DEF NextSlot

(* The ring maps to the window of the abstract monitor at every boot ...    *)
LEMMA InitWindow == Init => Window!Init
BY DEF Init, Window!Init, Window!Window, Held, Oldest

(* ... appending a frame is recording it ...                                *)
LEMMA AppendRecords ==
    ASSUME TypeOK, Append
    PROVE  Window!Record
<1>1. RingOK /\ RingOK' /\ main.frame \in Frame /\ cfg.pre \in Nat
  <2>1. RingOK'
    BY NextRing DEF Next, MainTask
  <2>2. QED
    BY <2>1, Parts DEF TasksOK, Settings
<1>2. written' = written + 1 /\ count' \in {count, count + 1}
  BY <1>1 DEF Append, CountAfter
<1>3. /\ written \in Nat /\ count \in 0 .. Capacity
      /\ count' \in 0 .. Capacity /\ Capacity \in Nat \ {0}
      /\ head \in Slots /\ head' \in Slots
  BY <1>1, Sizes DEF RingOK
<1>4. /\ Oldest' \in {Oldest, Oldest + 1} /\ written' - Oldest' <= Capacity
      /\ \A s \in Oldest' .. written' - 1 : written' - s \in 1 .. Capacity
      /\ \A s \in Oldest' .. written - 1 :
             /\ s \in Oldest .. written - 1 /\ s \in Oldest' .. written' - 1
             /\ written - s \in 1 .. Capacity - 1
             /\ written' - s = written - s + 1
  <2>1. CASE count' = count
    BY <1>2, <1>3, <2>1 DEF Oldest
  <2>2. CASE count' = count + 1
    BY <1>2, <1>3, <2>2 DEF Oldest
  <2>3. QED
    BY <1>2, <2>1, <2>2
<1>5. \A s \in Oldest' .. written' - 1 : SlotOf(s)' \in Slots
  <2> TAKE s \in Oldest' .. written' - 1
  <2>1. written' - s \in 1 .. Capacity
    BY <1>4
  <2>2. QED
    BY <1>3, <2>1, SlotFormula DEF SlotOf
<1>6. Held' \in [Oldest' .. written' - 1 -> Frame]
  BY <1>1, <1>5 DEF Held, RingOK
<1>7. ASSUME NEW s \in Oldest' .. written - 1 PROVE Held'[s] = Held[s]
  <2>1. /\ s \in Oldest .. written - 1 /\ s \in Oldest' .. written' - 1
        /\ written - s \in 1 .. Capacity - 1
        /\ written' - s = written - s + 1
    BY <1>4
  <2>2. PICK d \in 1 .. Capacity - 1 : d = written - s
    BY <2>1
  <2>3. /\ SlotOf(s) = IF head < d THEN head + Capacity - d ELSE head - d
        /\ SlotOf(s) \in Slots
    BY <1>3, <2>2, SlotFormula DEF SlotOf
  <2>4. SlotOf(s)' = IF head' < d + 1 THEN head' + Capacity - (d + 1)
                                      ELSE head' - (d + 1)
    <3>1. d + 1 \in 1 .. Capacity /\ written' - s = d + 1
      BY <1>3, <2>1, <2>2
    <3>2. QED
      BY <1>3, <3>1, SlotFormula DEF SlotOf
  <2>5. head' = IF head = Capacity - 1 THEN 0 ELSE head + 1
    BY <1>3, NextSlotFormula DEF Append
  <2>6. SlotOf(s)' = SlotOf(s) /\ SlotOf(s) # head
    BY <1>3, <2>3, <2>4, <2>5, Sizes
  <2>7. ring'[SlotOf(s)] = ring[SlotOf(s)]
    BY <1>1, <2>3, <2>6 DEF Append, RingOK
  <2>8. QED
    BY <2>1, <2>6, <2>7 DEF Held
<1>8. QED
  BY <1>2, <1>4, <1>6, <1>7 DEF Window!Record, Window!Window

(* ... a restart refills it from the tail ...                               *)
LEMMA RestartRefills ==
    ASSUME TypeOK, NEW kept \in BOOLEAN, Restart(kept)
    PROVE  Window!Refilled
<1>1. RingOK'
  BY NextRing DEF Next
<1>2. PICK n \in 0 .. Capacity : written' = n /\ count' = n
  <2>1. count' \in 0 .. Capacity /\ written' = count'
    BY <1>1 DEF Restart, CarryOver, NoRing, RingOK
  <2>2. QED
    BY <2>1
<1>3. \A s \in 0 .. written' - 1 : SlotOf(s)' \in Slots
  <2> TAKE s \in 0 .. written' - 1
  <2>1. written' - s \in 1 .. Capacity
    BY <1>2, Sizes
  <2>2. QED
    BY <1>1, <2>1, SlotFormula DEF SlotOf, RingOK
<1>4. Oldest' = 0 /\ written' \in 0 .. Capacity
  BY <1>2, Sizes DEF Oldest
<1>5. Held' \in [0 .. written' - 1 -> Frame]
  BY <1>1, <1>3, <1>4 DEF Held, RingOK
<1>6. QED
  BY <1>4, <1>5 DEF Window!Refilled, Window!Window

(* ... and clear() empties it.                                              *)
LEMMA ClearEmpties ==
    ASSUME ClearRing
    PROVE  Window!Empty
BY DEF ClearRing, Window!Empty, Window!Window, Held, Oldest

(* The monitor implements the abstract one: at(seq) returns the frame that  *)
(* was recorded under seq for as long as the number is held, whatever       *)
(* start(), stop(), clear() and restarts do in between.                     *)
THEOREM Implements == Spec => Addressed
<1>1. TypeOK /\ [Next]_vars => [Window!Next]_(Window!vars)
  <2> SUFFICES ASSUME TypeOK, [Next]_vars PROVE [Window!Next]_(Window!vars)
    OBVIOUS
  <2>1. CASE Append
    BY <2>1, AppendRecords DEF Window!Next
  <2>2. CASE ClearRing
    BY <2>2, ClearEmpties DEF Window!Next
  <2>3. ASSUME NEW kept \in BOOLEAN, Restart(kept) PROVE Window!Next
    BY <2>3, RestartRefills DEF Window!Next
  <2>4. CASE UNCHANGED buffer
    BY <2>4 DEF buffer, Window!vars, Oldest, Held, SlotOf
  <2>5. CASE UNCHANGED vars
    BY <2>4, <2>5 DEF vars
  <2>6. CASE MainTask
    BY <2>1, <2>4, <2>6
    DEF MainTask, Arrive, RememberHead, RememberCount, Gate, Overflow,
        Trigger, Settle
  <2>7. CASE WebTask
    BY <2>2, <2>4, <2>7
    DEF WebTask, StartOff, Configure, Go, Stop, ClearTrigger
  <2>8. QED
    BY <2>3, <2>5, <2>6, <2>7 DEF Next
<1>2. QED
  BY <1>1, InitWindow, TypeCorrect, PTL DEF Spec, Addressed, Window!Spec

-----------------------------------------------------------------------------
(* No more frames are recorded than the bus has seen, and one on its way to *)
(* the ring is not among them yet.                                          *)
OnItsWay == main.at \in {"head", "count", "gate", "append"}
Counted ==
    /\ written =< Tail + frames
    /\ OnItsWay => written < Tail + frames /\ 0 < frames

(* Since the last start(), while no call has met another one: hook() works  *)
(* under the state it has read, and the web task is not about to change it. *)
Apart ==
    /\ web.at \in {"configure", "go"} => state = "off" /\ ~Capturing
    /\ main.at = "append" => web.at \in {"idle", "clear"}
    /\ main.at = "settle" => web.at = "idle"
    /\ Capturing => main.seen = state /\ state \in {"armed", "running"}

(* What a recording that waits for an event knows of it: before ...         *)
Recorded(lo, hi) == {seq \in Oldest .. written - 1 : seq \in lo .. hi}
NoneFired ==
    \A seq \in Recorded(armedAt, IF main.at = "settle" THEN written - 2 ELSE written - 1) :
        ~Held[seq].event

(* ... and after it.                                                        *)
Named ==
    /\ triggerSeq \in armedAt .. written - 1
    /\ triggerSeq >= Oldest => Held[triggerSeq].event
    /\ \A seq \in Recorded(armedAt, triggerSeq - 1) : ~Held[seq].event

(* Each frame after the one that fired is counted once.                     *)
Counts ==
    /\ after \in Nat /\ written = triggerSeq + 1 + after
    /\ cfg.post > 0 => after < cfg.post + (IF main.at = "settle" THEN 1 ELSE 0)

LastIsNew == armedAt < written /\ 0 < count /\ Held[written - 1] = main.frame

EventRun ==
    /\ armedAt =< written
    /\ web.at = "go" => ~fired /\ ~triggered
    /\ triggered => fired
    /\ state = "armed" => ~fired
    /\ state = "running" => web.at = "idle" /\ triggered /\ Counts
    /\ (state = "full" /\ fired /\ cfg.post > 0) => after = cfg.post \/ missed > 0
    /\ main.at = "settle" => LastIsNew
    /\ ~fired => NoneFired
    /\ (triggered /\ web.at # "clear") => Named

Waiting == ~disturbed /\ web.at # "configure" /\ cfg.trigger = "event"
RunInv == Counted /\ (~disturbed => Apart) /\ (Waiting => EventRun)

(* Frames are counted on the bus before they are in the ring.               *)
LEMMA CountedKeeps == TypeOK /\ Counted /\ [Next]_vars => Counted'
<1> SUFFICES ASSUME TypeOK, Counted, [Next]_vars PROVE Counted'
  OBVIOUS
<1>1. /\ written \in Nat /\ frames \in Nat /\ Tail \in Nat \ {0}
      /\ main \in [at : MainSteps, frame : Frame, seen : States]
  BY Parts, LimitAssumption DEF RingOK, NumbersOK, TasksOK
<1> USE DEF Counted, OnItsWay
<1>2. CASE Arrive
  <2>1. main'.at = "head" /\ frames' = frames + 1 /\ written' = written
    BY <1>2 DEF Arrive, buffer
  <2>2. QED
    BY <1>1, <2>1
<1>3. CASE RememberHead \/ RememberCount
  <2>1. main.at \in {"head", "count"} /\ frames' = frames /\ written' = written
    BY <1>3 DEF RememberHead, RememberCount, buffer, bus
  <2>2. QED
    BY <1>1, <2>1
<1>4. CASE Gate
  <2>1. main.at = "gate" /\ frames' = frames /\ written' = written
    BY <1>4 DEF Gate, buffer, bus
  <2>2. QED
    BY <1>1, <2>1
<1>5. CASE Append
  <2>1. main.at = "append" /\ main'.at = "settle" /\ frames' = frames /\ written' = written + 1
    BY <1>1, <1>5 DEF Append, bus
  <2>2. QED
    BY <1>1, <2>1
<1>6. CASE Overflow \/ Trigger \/ Settle
  <2>1. main'.at = "idle" /\ frames' = frames /\ written' = written
    BY <1>6 DEF Overflow, Trigger, Settle, Idle, buffer, bus
  <2>2. QED
    BY <1>1, <2>1
<1>7. CASE UNCHANGED <<written, main, frames>>
  BY <1>7
<1>8. CASE ClearRing
  <2>1. main' = main /\ frames' = frames /\ written' = 0
    BY <1>8 DEF ClearRing, bus
  <2>2. QED
    BY <1>1, <2>1
<1>9. ASSUME NEW kept \in BOOLEAN, Restart(kept) PROVE Counted'
  <2>1. main'.at = "idle" /\ frames' = frames
    BY <1>9 DEF Restart, Fresh, Idle
  <2>2. written' \in 0 .. Tail
    <3>1. Carried(kept) \in 0 .. Tail
      BY <1>1, Parts DEF Carried, TailOK
    <3>2. QED
      BY <1>1, <1>9, <3>1 DEF Restart, CarryOver, NoRing
  <2>3. QED
    BY <1>1, <2>1, <2>2
<1>10. CASE StartOff \/ Configure \/ Go \/ Stop \/ ClearTrigger \/ UNCHANGED vars
  BY <1>7, <1>10 DEF StartOff, Configure, Go, Stop, ClearTrigger, vars, buffer, bus
<1>11. QED
  BY <1>2, <1>3, <1>4, <1>5, <1>6, <1>8, <1>9, <1>10 DEF Next, MainTask, WebTask

(* The tasks stay apart, or disturbed notes it.                             *)
LEMMA ApartKeeps ==
    TypeOK /\ (~disturbed => Apart) /\ [Next]_vars => (~disturbed => Apart)'
<1> SUFFICES ASSUME TypeOK, ~disturbed => Apart, [Next]_vars, ~disturbed' PROVE Apart'
  OBVIOUS
<1>1. /\ main \in [at : MainSteps, frame : Frame, seen : States]
      /\ web \in [at : WebSteps, req : Settings]
      /\ web.at \in {"idle", "configure", "go", "clear"}
  BY Parts DEF TasksOK, WebSteps
<1> USE DEF Apart, Capturing
<1>2. CASE Arrive \/ RememberHead \/ RememberCount
  <2>0. main'.at \in {"head", "count", "gate"}
    <3>1. CASE Arrive
      BY <3>1 DEF Arrive
    <3>2. CASE RememberHead \/ RememberCount
      BY <1>1, <3>2 DEF RememberHead, RememberCount
    <3>3. QED
      BY <1>2, <3>1, <3>2
  <2>1. main'.at \in {"head", "count", "gate"} /\ web' = web /\ state' = state
    BY <1>2, <2>0 DEF Arrive, RememberHead, RememberCount, recording
  <2>2. disturbed' = disturbed
    BY <1>2 DEF Arrive, RememberHead, RememberCount, history
  <2>3. ~disturbed
    BY <2>2, Zenon
  <2>4. QED
    BY <2>1, <2>3
<1>3. CASE Gate
  <2>1. ~disturbed /\ web' = web /\ state' = state
    BY <1>3 DEF Gate, recording
  <2>2. CASE Wanted(main.frame)
    <3>1. state \in {"armed", "running"} /\ main'.at = "append" /\ main'.seen = state
      BY <1>1, <1>3, <2>2 DEF Gate, Wanted
    <3>2. QED
      BY <1>1, <2>1, <3>1
  <2>3. CASE ~Wanted(main.frame)
    <3>1. main'.at = "idle"
      BY <1>3, <2>3 DEF Gate, Idle
    <3>2. QED
      BY <2>1, <3>1
  <2>4. QED
    BY <2>2, <2>3
<1>4. CASE Append
  <2>1. ~disturbed /\ web.at = "idle" /\ web' = web /\ state' = state
    BY <1>4 DEF Append, Disturb, recording
  <2>2. main'.at = "settle" /\ main'.seen = main.seen /\ main.at = "append"
    BY <1>1, <1>4 DEF Append
  <2>3. QED
    BY <2>1, <2>2
<1>5. CASE Overflow \/ Trigger \/ Settle
  <2>1. web.at = "idle"
    BY <1>5, Zenon DEF Overflow, Trigger, Settle, Disturb
  <2>2. web' = web /\ main'.at = "idle"
    BY <1>5 DEF Overflow, Trigger, Settle, Idle
  <2>3. QED
    BY <2>1, <2>2
<1>6. CASE StartOff
  <2>1. main' = main /\ web'.at = "configure" /\ state' = "off"
    BY <1>6 DEF StartOff
  <2>2. ~Capturing
    <3>1. disturbed' = Capturing
      BY <1>6 DEF StartOff
    <3>2. QED
      BY <3>1, Zenon
  <2>3. QED
    BY <2>1, <2>2
<1>7. CASE Configure \/ Go \/ Stop \/ ClearRing \/ ClearTrigger
  <2>1. ~disturbed /\ ~Capturing /\ main' = main
    BY <1>7 DEF Configure, Go, Stop, ClearRing, ClearTrigger, Disturb
  <2>2. web'.at \in {"go", "idle", "clear"} /\ (web'.at = "go" => web.at = "configure" /\ state' = state)
    BY <1>1, <1>7 DEF Configure, Go, Stop, ClearRing, ClearTrigger
  <2>3. QED
    BY <2>1, <2>2
<1>8. ASSUME NEW kept \in BOOLEAN, Restart(kept) PROVE Apart'
  <2>1. main'.at = "idle" /\ web'.at = "idle"
    BY <1>8 DEF Restart, Fresh, Idle
  <2>2. QED
    BY <2>1
<1>9. CASE UNCHANGED vars
  <2>1. ~disturbed /\ UNCHANGED <<main, web, state>>
    BY <1>9 DEF vars, recording, history
  <2>2. QED
    BY <2>1
<1>10. QED
  BY <1>2, <1>3, <1>4, <1>5, <1>6, <1>7, <1>8, <1>9 DEF Next, MainTask, WebTask

(* What the ring holds changes with the ring only.                          *)
LEMMA HeldSame == UNCHANGED buffer => Held' = Held /\ Oldest' = Oldest /\ written' = written
BY DEF buffer, Held, Oldest, SlotOf

(* A step that leaves recording, ring and web task alone and does not touch *)
(* a frame just appended.                                                   *)
LEMMA UntouchedRun ==
    ASSUME EventRun, UNCHANGED <<buffer, recording, web, history>>,
           main.at # "settle", main'.at # "settle"
    PROVE  EventRun'
<1>1. /\ Held' = Held /\ Oldest' = Oldest /\ written' = written
      /\ UNCHANGED <<state, cfg, triggerSeq, triggered, missed, armedAt, fired, after, web>>
  BY HeldSame DEF recording, history
<1>2. NoneFired' <=> NoneFired
  BY <1>1 DEF NoneFired, Recorded
<1>3. Named' <=> Named
  BY <1>1 DEF Named, Recorded
<1>4. Counts' <=> Counts
  BY <1>1 DEF Counts
<1>5. QED
  BY <1>1, <1>2, <1>3, <1>4 DEF EventRun

(* The frame appended is the newest, the others stay under their numbers.   *)
LEMMA AppendHolds ==
    ASSUME TypeOK, Append
    PROVE  /\ written' = written + 1 /\ 0 < count'
           /\ Oldest \in Int /\ Oldest' \in {Oldest, Oldest + 1} /\ Oldest' =< written
           /\ \A s \in Oldest' .. written - 1 : Held'[s] = Held[s]
           /\ Held'[written] = main.frame
<1>1. RingOK /\ main.frame \in Frame /\ cfg.pre \in Nat
  BY Parts DEF TasksOK, Settings
<1>2. Window!Record
  BY AppendRecords
<1>3. 0 < count' /\ written' = written + 1
  BY <1>1, Sizes DEF Append, CountAfter, Limit, RingOK
<1>4. RingOK'
  BY NextRing DEF Next, MainTask
<1>5. Oldest \in Int /\ Oldest' =< written /\ written \in Oldest' .. written' - 1
  <2>1. Oldest = written - count /\ Oldest' = written' - count'
    BY DEF Oldest
  <2>2. written \in Nat /\ count \in Nat /\ count' \in Nat
    BY <1>1, <1>4, Sizes DEF RingOK
  <2>a. Oldest \in Int
    BY <2>2 DEF Oldest
  <2>b. Oldest' \in Int
    BY <1>3, <2>2 DEF Oldest
  <2>c. written' - count' =< written
    <3>1. \A a, b, c \in Nat : 0 < c /\ b = a + 1 => b - c =< a
      OBVIOUS
    <3>2. written' \in Nat
      BY <1>4 DEF RingOK
    <3>3. QED
      BY <1>3, <2>2, <3>1, <3>2
  <2>3. Oldest \in Int /\ Oldest' \in Int /\ Oldest' =< written
    BY <2>1, <2>a, <2>b, <2>c
  <2>4. QED
    BY <1>3, <2>2, <2>3
<1>w. PICK w \in Nat : w = written
  BY <1>1 DEF RingOK
<1>6. SlotOf(w)' = head
  <2>1. head \in Slots /\ head' \in Slots /\ written' - w = 1
    BY <1>1, <1>3, <1>4, <1>w DEF RingOK
  <2>2. SlotOf(w)' = IF head' < 1 THEN head' + Capacity - 1 ELSE head' - 1
    <3>1. 1 \in 1 .. Capacity
      BY Sizes
    <3>2. SlotOf(w)' = (head' + Capacity - 1) % Capacity
      BY <2>1 DEF SlotOf
    <3>3. QED
      BY <2>1, <3>1, <3>2, SlotFormula
  <2>3. head' = IF head = Capacity - 1 THEN 0 ELSE head + 1
    BY <2>1, NextSlotFormula DEF Append
  <2>4. QED
    BY <2>1, <2>2, <2>3, Sizes
<1>7. Held'[written] = main.frame
  <2>1. Held'[w] = ring'[SlotOf(w)']
    BY <1>5, <1>w DEF Held
  <2>2. ring' = [ring EXCEPT ![head] = main.frame] /\ head \in DOMAIN ring
    BY <1>1 DEF Append, RingOK
  <2>3. QED
    BY <1>6, <1>w, <2>1, <2>2
<1>8. QED
  BY <1>2, <1>3, <1>5, <1>7 DEF Window!Record

LEMMA Typed ==
    TypeOK => /\ written \in Nat /\ count \in Nat /\ armedAt \in Nat /\ after \in Int /\ missed \in Nat
              /\ triggerSeq \in Nat /\ cfg.post \in Nat
              /\ state \in {"off", "armed", "running", "full"}
              /\ main \in [at : MainSteps, frame : Frame, seen : States]
              /\ web \in [at : WebSteps, req : Settings]
BY Parts, Sizes, LimitAssumption DEF RingOK, NumbersOK, FlagsOK, TasksOK, States, Settings

LEMMA AppendRun ==
    ASSUME TypeOK, RunInv, Append, Waiting'
    PROVE  EventRun'
<1>1. /\ ~disturbed /\ web.at = "idle" /\ web' = web /\ cfg' = cfg
  <2>1. ~disturbed /\ web.at = "idle"
    BY Zenon DEF Append, Disturb, Waiting
  <2>2. QED
    BY <2>1 DEF Append, recording
<1>2. Apart /\ EventRun
  BY <1>1, Zenon DEF RunInv, Waiting
<1>3. /\ main.at = "append" /\ main'.at = "settle" /\ main'.frame = main.frame
      /\ main.seen = state /\ state \in {"armed", "running"}
  BY <1>2, Typed DEF Append, Apart, Capturing
<1>4. /\ UNCHANGED <<state, triggerSeq, triggered, missed, armedAt, fired>>
      /\ after' = IF fired /\ state # "armed" THEN after + 1 ELSE after
  BY <1>3 DEF Append, recording, Armed
<1> DEFINE old == Oldest
           new == Oldest'
<1>5. /\ written' = written + 1 /\ 0 < count' /\ written \in Nat
      /\ old \in Int /\ new \in {old, old + 1} /\ new =< written
      /\ \A s \in new .. written - 1 : Held'[s] = Held[s]
      /\ Held'[written] = main.frame
  BY AppendHolds, Typed
<1>6. armedAt' =< written' /\ LastIsNew'
  <2>1. armedAt =< written /\ armedAt \in Nat
    BY <1>2, Typed DEF EventRun
  <2>2. written' - 1 = written
    BY <1>5
  <2>3. Held'[written' - 1] = main'.frame
    BY <1>3, <1>5, <2>2
  <2>4. QED
    BY <1>4, <1>5, <2>1, <2>3 DEF LastIsNew
<1>7. ~fired' => NoneFired'
  <2>1. SUFFICES ASSUME ~fired PROVE NoneFired'
    BY <1>4
  <2>2. NoneFired /\ armedAt \in Nat
    BY <1>2, <2>1, Typed DEF EventRun
  <2>3. SUFFICES ASSUME NEW s \in Recorded(armedAt, IF main.at = "settle" THEN written - 2 ELSE written - 1)'
                 PROVE  ~Held'[s].event
    BY DEF NoneFired
  <2>4. s \in new .. written - 1 /\ s \in armedAt .. written - 1
    BY <1>3, <1>4, <1>5, <2>2 DEF Recorded
  <2>5. s \in Recorded(armedAt, IF main.at = "settle" THEN written - 2 ELSE written - 1)
    BY <1>3, <1>5, <2>4 DEF Recorded
  <2>6. QED
    BY <1>5, <2>2, <2>4, <2>5 DEF NoneFired
<1>8. triggered' => Named'
  <2>1. SUFFICES ASSUME triggered PROVE Named'
    BY <1>4
  <2>2. Named /\ armedAt \in Nat /\ triggerSeq \in Nat
    BY <1>1, <1>2, <2>1, Typed DEF EventRun
  <2>3. triggerSeq' \in armedAt' .. written' - 1
    BY <1>4, <1>5, <2>2 DEF Named
  <2>4. triggerSeq' >= new => Held'[triggerSeq'].event
    <3>1. SUFFICES ASSUME triggerSeq >= new PROVE Held'[triggerSeq].event
      BY <1>4
    <3>2. triggerSeq >= old /\ triggerSeq \in new .. written - 1
      BY <1>5, <2>2, <3>1 DEF Named
    <3>3. QED
      BY <1>5, <2>2, <3>2 DEF Named
  <2>5. ASSUME NEW s \in Recorded(armedAt, triggerSeq - 1)' PROVE ~Held'[s].event
    <3>1. s \in new .. written - 1 /\ s \in armedAt .. triggerSeq - 1
      BY <1>4, <1>5, <2>2, <2>5 DEF Recorded, Named
    <3>2. s \in Recorded(armedAt, triggerSeq - 1)
      BY <1>5, <3>1 DEF Recorded
    <3>3. QED
      BY <1>5, <2>2, <3>1, <3>2 DEF Named
  <2>6. QED
    BY <2>3, <2>4, <2>5 DEF Named
<1>9. state' = "running" => Counts'
  <2>1. SUFFICES ASSUME state = "running" PROVE Counts'
    BY <1>4
  <2>2. Counts /\ fired
    BY <1>2, <2>1 DEF EventRun
  <2>3. after' = after + 1 /\ after \in Nat /\ cfg.post \in Nat /\ triggerSeq \in Nat
    BY <1>4, <2>1, <2>2, Typed DEF Counts
  <2>4. QED
    BY <1>1, <1>3, <1>4, <1>5, <2>2, <2>3 DEF Counts
<1>10. /\ web' = web /\ web.at = "idle" /\ UNCHANGED <<state, triggered, fired>>
       /\ state \in {"armed", "running"} /\ (state = "armed" => ~fired) /\ (triggered => fired)
       /\ (state = "running" => triggered)
  BY <1>1, <1>2, <1>3, <1>4 DEF EventRun
<1>11. QED
  BY <1>6, <1>7, <1>8, <1>9, <1>10 DEF EventRun

(* The trigger.                                                             *)
LEMMA TriggerRun ==
    ASSUME TypeOK, RunInv, Trigger, Waiting'
    PROVE  EventRun'
<1>1. ~disturbed /\ web.at = "idle" /\ web' = web /\ cfg' = cfg
  BY Zenon DEF Trigger, Disturb, Waiting
<1>2. Apart /\ EventRun /\ cfg.trigger = "event"
  BY <1>1, Zenon DEF RunInv, Waiting
<1>3. main.at = "settle" /\ state = "armed" /\ main.frame.event
  BY <1>2 DEF Trigger, Armed, Fires, Apart, Capturing
<1>4. /\ ~fired /\ ~triggered /\ NoneFired /\ LastIsNew /\ armedAt =< written
  BY <1>2, <1>3 DEF EventRun
<1>5. /\ triggered' = TRUE /\ fired' = TRUE /\ after' = 0 /\ state' = "running"
      /\ main'.at = "idle" /\ UNCHANGED <<buffer, armedAt>>
  BY DEF Trigger, Idle
<1>6. Held' = Held /\ Oldest' = Oldest /\ written' = written
  BY <1>5, HeldSame
<1>7. triggerSeq' = written - 1 /\ written \in Nat /\ armedAt \in Nat /\ armedAt < written
      /\ cfg.post \in Nat
  <2>1. written \in Nat /\ armedAt \in Nat /\ armedAt < written /\ cfg.post \in Nat
    BY <1>4, Typed DEF LastIsNew
  <2>2. written =< Tail + frames /\ frames \in 0 .. MaxFrames
    BY Parts DEF RunInv, Counted, NumbersOK
  <2>3. written - 1 \in 0 .. SeqMod - 1
    BY <2>1, <2>2, LimitAssumption
  <2>4. (written - 1) % SeqMod = written - 1
    BY <2>3, LimitAssumption
  <2>5. QED
    BY <2>1, <2>4 DEF Trigger, TriggerNow
<1>8. Counts'
  <2>1. main'.at # "settle" /\ cfg'.post = cfg.post
    BY <1>1, <1>5
  <2>2. QED
    BY <1>5, <1>6, <1>7, <2>1 DEF Counts
<1>9. Named'
  <2>1. triggerSeq' \in armedAt' .. written' - 1
    BY <1>5, <1>6, <1>7
  <2>2. Held'[triggerSeq'].event
    BY <1>3, <1>4, <1>6, <1>7 DEF LastIsNew
  <2>3. ASSUME NEW s \in Recorded(armedAt, triggerSeq - 1)' PROVE ~Held'[s].event
    <3>1. Recorded(armedAt, triggerSeq - 1)'
            = Recorded(armedAt, IF main.at = "settle" THEN written - 2 ELSE written - 1)
      BY <1>3, <1>5, <1>6, <1>7 DEF Recorded
    <3>2. QED
      BY <1>4, <1>6, <2>3, <3>1 DEF NoneFired
  <2>4. QED
    BY <2>1, <2>2, <2>3 DEF Named
<1>10. QED
  BY <1>1, <1>5, <1>6, <1>7, <1>8, <1>9 DEF EventRun

(* The end of a frame that fires nothing: the recording goes on or is full. *)
LEMMA SettleRun ==
    ASSUME TypeOK, RunInv, Settle, Waiting'
    PROVE  EventRun'
<1>1. ~disturbed /\ web.at = "idle" /\ web' = web /\ cfg' = cfg
  BY Zenon DEF Settle, Disturb, Waiting
<1>2. Apart /\ EventRun /\ cfg.trigger = "event"
  BY <1>1, Zenon DEF RunInv, Waiting
<1>3. main.at = "settle" /\ main.seen = state /\ state \in {"armed", "running"}
  BY <1>2 DEF Settle, Apart, Capturing
<1>4. /\ UNCHANGED <<buffer, triggerSeq, triggered, missed, armedAt, fired, after>>
      /\ main'.at = "idle"
  BY DEF Settle, Idle
<1>5. Held' = Held /\ Oldest' = Oldest /\ written' = written
  BY <1>4, HeldSame
<1>6. written \in Nat /\ armedAt \in Nat /\ LastIsNew /\ armedAt =< written
  BY <1>2, <1>3, Typed DEF EventRun
<1>7. CASE state = "armed"
  <2>1. ~main.frame.event /\ state' = "armed"
    BY <1>2, <1>3, <1>7 DEF Settle, Armed, Fires
  <2>2. ~fired /\ ~triggered /\ NoneFired
    BY <1>2, <1>7 DEF EventRun
  <2>3. NoneFired'
    <3>1. SUFFICES ASSUME NEW s \in Recorded(armedAt, IF main.at = "settle" THEN written - 2 ELSE written - 1)'
                   PROVE  ~Held'[s].event
      BY DEF NoneFired
    <3>2. s \in Oldest .. written - 1 /\ s \in armedAt .. written - 1
      BY <1>4, <1>5, <3>1 DEF Recorded
    <3>3. CASE s = written - 1
      BY <1>5, <1>6, <2>1, <3>3 DEF LastIsNew
    <3>4. CASE s # written - 1
      <4>1. s \in armedAt .. written - 2
        BY <1>6, <3>2, <3>4
      <4>2. s \in Recorded(armedAt, IF main.at = "settle" THEN written - 2 ELSE written - 1)
        BY <1>3, <3>2, <4>1 DEF Recorded
      <4>3. QED
        BY <1>5, <2>2, <4>2 DEF NoneFired
    <3>5. QED
      BY <3>3, <3>4
  <2>4. QED
    BY <1>1, <1>4, <1>5, <1>6, <2>1, <2>2, <2>3 DEF EventRun
<1>8. CASE state = "running"
  <2>1. fired /\ triggered /\ Counts /\ Named
    BY <1>1, <1>2, <1>8 DEF EventRun
  <2>2. Named'
    BY <1>4, <1>5, <2>1 DEF Named, Recorded
  <2>3. /\ after \in Nat /\ triggerSeq \in Nat /\ cfg.post \in Nat /\ written = triggerSeq + 1 + after
        /\ cfg.post > 0 => after =< cfg.post
    BY <1>3, <2>1, Typed DEF Counts
  <2>4. SinceTrigger <=> after >= cfg.post
    <3>1. written - triggerSeq = after + 1 /\ after + 1 =< written
      BY <1>6, <2>3
    <3>2. written =< Tail + frames /\ frames \in 0 .. MaxFrames
      BY Parts DEF RunInv, Counted, NumbersOK
    <3>3. after + 1 \in 0 .. SeqMod - 1
      BY <1>6, <2>3, <3>1, <3>2, LimitAssumption
    <3>4. (after + 1) % SeqMod = after + 1
      BY <3>3, LimitAssumption
    <3>5. QED
      BY <2>3, <3>1, <3>4 DEF SinceTrigger
  <2>5. state' = IF cfg.post > 0 /\ after >= cfg.post THEN "full" ELSE "running"
    BY <1>3, <1>8, <2>1, <2>4 DEF Settle, Armed
  <2>6. state' = "running" => Counts'
    <3>1. SUFFICES ASSUME state' = "running" PROVE Counts'
      OBVIOUS
    <3>2. cfg.post > 0 => after < cfg.post
      BY <2>3, <2>5, <3>1
    <3>3. QED
      BY <1>1, <1>4, <1>5, <2>3, <3>2 DEF Counts
  <2>7. (state' = "full" /\ cfg'.post > 0) => after' = cfg'.post
    BY <1>1, <1>4, <2>3, <2>5
  <2>8. state' \in {"full", "running"}
    BY <2>5
  <2>9. QED
    BY <1>1, <1>4, <1>5, <1>6, <2>1, <2>2, <2>6, <2>7, <2>8 DEF EventRun
<1>9. QED
  BY <1>3, <1>7, <1>8

(* The ring is full and the recording ends there: the frame was missed.     *)
LEMMA OverflowRun ==
    ASSUME TypeOK, RunInv, Overflow, Waiting'
    PROVE  EventRun'
<1>1. ~disturbed /\ web.at = "idle" /\ web' = web /\ cfg' = cfg
  BY Zenon DEF Overflow, Disturb, Waiting
<1>2. Apart /\ EventRun
  BY <1>1, Zenon DEF RunInv, Waiting
<1>3. /\ UNCHANGED <<buffer, triggerSeq, triggered, armedAt, fired, after>>
      /\ main'.at = "idle" /\ main.at = "append" /\ state' = "full" /\ missed' > 0
  BY Typed DEF Overflow, Idle
<1>4. Held' = Held /\ Oldest' = Oldest /\ written' = written
  BY <1>3, HeldSame
<1>5. armedAt =< written /\ (triggered => fired /\ Named) /\ (~fired => NoneFired)
  BY <1>1, <1>2 DEF EventRun
<1>6. (triggered' => Named') /\ (~fired' => NoneFired')
  BY <1>3, <1>4, <1>5 DEF Named, NoneFired, Recorded
<1>7. QED
  BY <1>1, <1>3, <1>4, <1>5, <1>6 DEF EventRun

(* What the web task does while the main task is not in capture().          *)
LEMMA WebRun ==
    ASSUME TypeOK, RunInv, Configure \/ Go \/ Stop \/ ClearRing \/ ClearTrigger, Waiting'
    PROVE  EventRun'
<1>1. ~disturbed /\ main.at \notin {"append", "settle"} /\ main' = main
  <2>1. ~disturbed /\ ~Capturing
    BY Zenon DEF Configure, Go, Stop, ClearRing, ClearTrigger, Disturb, Waiting
  <2>2. QED
    BY <2>1 DEF Configure, Go, Stop, ClearRing, ClearTrigger, Capturing
<1>2. Apart
  BY <1>1, Zenon DEF RunInv
<1>3. written \in Nat /\ armedAt \in Nat /\ web \in [at : WebSteps, req : Settings]
  BY Typed
<1>4. CASE Configure
  <2>1. /\ web'.at = "go" /\ state' = "off" /\ armedAt' = written /\ UNCHANGED buffer
    BY <1>2, <1>3, <1>4 DEF Configure, Apart
  <2>2. ~triggered' /\ ~fired'
    <3>1. cfg'.trigger = web.req.trigger
      BY <1>3, <1>4 DEF Configure, Settings
    <3>2. web.req.trigger = "event"
      BY <3>1 DEF Waiting
    <3>3. triggered' = FALSE
      BY <1>4, <3>2 DEF Configure
    <3>4. QED
      BY <1>4, <3>3 DEF Configure
  <2>3. NoneFired'
    <3>1. written' = written
      BY <2>1, HeldSame
    <3>2. Recorded(armedAt, IF main.at = "settle" THEN written - 2 ELSE written - 1)' = {}
      BY <1>1, <1>3, <2>1, <3>1 DEF Recorded
    <3>3. QED
      BY <3>2 DEF NoneFired
  <2>4. QED
    BY <1>1, <1>3, <2>1, <2>2, <2>3, HeldSame DEF EventRun
<1>5. CASE ClearRing
  <2>1. /\ armedAt' = 0 /\ written' = 0 /\ count' = 0 /\ web.at = "idle" /\ web'.at = "clear"
        /\ UNCHANGED <<state, cfg, triggerSeq, triggered, missed, fired, after>>
    BY <1>3, <1>5 DEF ClearRing, recording
  <2>2. state # "running"
    BY <1>5, Zenon DEF ClearRing, Disturb, Waiting
  <2>3. EventRun
    BY <1>1, <2>1, Zenon DEF RunInv, Waiting
  <2>4. NoneFired'
    <3>1. Oldest' = 0
      BY <2>1 DEF Oldest
    <3>2. Recorded(armedAt, IF main.at = "settle" THEN written - 2 ELSE written - 1)' = {}
      BY <2>1, <3>1 DEF Recorded
    <3>3. QED
      BY <3>2 DEF NoneFired
  <2>5. QED
    BY <1>1, <2>1, <2>2, <2>3, <2>4 DEF EventRun
<1>6. CASE Go \/ Stop \/ ClearTrigger
  <2>1. /\ UNCHANGED <<buffer, cfg, missed, armedAt, fired, after>>
        /\ web.at # "configure"
        /\ web'.at = "idle"
    BY <1>3, <1>6 DEF Go, Stop, ClearTrigger
  <2>2. EventRun /\ cfg.trigger = "event"
    BY <1>1, <2>1, Zenon DEF RunInv, Waiting
  <2>3. Held' = Held /\ Oldest' = Oldest /\ written' = written
    BY <2>1, HeldSame
  <2>4. ~fired' => NoneFired'
    BY <1>1, <2>1, <2>2, <2>3 DEF EventRun, NoneFired, Recorded
  <2>5. CASE Go
    <3>1. web.at = "go" /\ state' = "armed" /\ UNCHANGED <<triggerSeq, triggered>>
      BY <2>2, <2>5 DEF Go
    <3>2. QED
      BY <1>1, <2>1, <2>2, <2>3, <2>4, <3>1 DEF EventRun
  <2>6. CASE Stop
    <3>1. web.at = "idle" /\ state' = "off" /\ UNCHANGED <<triggerSeq, triggered>>
      BY <2>6 DEF Stop
    <3>2. triggered' => Named'
      BY <2>1, <2>2, <2>3, <3>1 DEF EventRun, Named, Recorded
    <3>3. QED
      BY <1>1, <2>1, <2>2, <2>3, <2>4, <3>1, <3>2 DEF EventRun
  <2>7. CASE ClearTrigger
    <3>1. triggered' = FALSE /\ state' = state
      BY <2>7 DEF ClearTrigger
    <3>2. state # "running"
      BY <2>7, Zenon DEF ClearTrigger, Disturb, Waiting
    <3>3. QED
      BY <1>1, <2>1, <2>2, <2>3, <2>4, <3>1, <3>2 DEF EventRun
  <2>8. QED
    BY <1>6, <2>5, <2>6, <2>7
<1>7. QED
  BY <1>4, <1>5, <1>6

(* A step keeps what a waiting recording knows.                             *)
LEMMA RunKeeps ==
    ASSUME TypeOK, RunInv, [Next]_vars
    PROVE  RunInv'
<1>1. Counted' /\ (~disturbed => Apart)'
  BY CountedKeeps, ApartKeeps DEF RunInv
<1>2. SUFFICES ASSUME Waiting' PROVE EventRun'
  BY <1>1 DEF RunInv
<1>3. /\ main \in [at : MainSteps, frame : Frame, seen : States]
      /\ web \in [at : WebSteps, req : Settings]
  BY Typed
<1>4. ASSUME UNCHANGED <<buffer, recording, web, history>>, main.at # "settle", main'.at # "settle"
      PROVE  EventRun'
  <2>1. UNCHANGED <<disturbed, cfg>> /\ web' = web
    BY <1>4 DEF recording, history
  <2>2. Waiting
    BY <1>2, <2>1, Zenon DEF Waiting
  <2>3. QED
    BY <1>4, <2>2, UntouchedRun DEF RunInv
<1>5. CASE Arrive \/ RememberHead \/ RememberCount \/ Gate
  <2>1. UNCHANGED <<buffer, recording, web, history>> /\ main.at # "settle"
    BY <1>5 DEF Arrive, RememberHead, RememberCount, Gate, history
  <2>2. main'.at # "settle"
    <3>1. CASE Arrive
      BY <3>1 DEF Arrive
    <3>2. CASE RememberHead \/ RememberCount
      BY <1>3, <3>2 DEF RememberHead, RememberCount
    <3>3. CASE Gate
      <4>1. CASE Wanted(main.frame)
        BY <1>3, <3>3, <4>1 DEF Gate
      <4>2. CASE ~Wanted(main.frame)
        BY <3>3, <4>2 DEF Gate, Idle
      <4>3. QED
        BY <4>1, <4>2
    <3>4. QED
      BY <1>5, <3>1, <3>2, <3>3
  <2>3. QED
    BY <1>4, <2>1, <2>2
<1>6. CASE StartOff
  <2>1. web'.at = "configure"
    BY <1>6 DEF StartOff
  <2>2. QED
    BY <1>2, <2>1 DEF Waiting
<1>7. ASSUME NEW kept \in BOOLEAN, Restart(kept) PROVE EventRun'
  <2>1. cfg'.trigger = "now"
    BY <1>7 DEF Restart, Fresh, Defaults
  <2>2. QED
    BY <1>2, <2>1 DEF Waiting
<1>8. CASE UNCHANGED vars
  <2>1. UNCHANGED <<buffer, recording, main, web, armedAt, fired, after, disturbed>>
    BY <1>8 DEF vars, history
  <2>2. Waiting
    BY <1>2, <2>1, Zenon DEF Waiting, recording
  <2>3. Held' = Held /\ Oldest' = Oldest /\ written' = written /\ count' = count
    BY <2>1, HeldSame DEF buffer
  <2>4. QED
    BY <2>1, <2>2, <2>3 DEF RunInv, EventRun, Counts, NoneFired, Named, LastIsNew, Recorded, recording
<1>9. QED
  BY <1>2, <1>5, <1>6, <1>7, <1>8, AppendRun, TriggerRun, SettleRun, OverflowRun, WebRun
  DEF Next, MainTask, WebTask

LEMMA InitRun == Init => RunInv
<1> SUFFICES ASSUME Init PROVE RunInv
  OBVIOUS
<1>1. Counted
  BY LimitAssumption DEF Init, Counted, OnItsWay, Idle
<1>2. Apart
  BY DEF Init, Apart, Idle, Capturing
<1>3. ~Waiting
  BY DEF Init, Waiting, Defaults
<1>4. QED
  BY <1>1, <1>2, <1>3 DEF RunInv

(* "Sequence number of the frame that fired the trigger, 0 when none did"   *)
(* (bus_monitor.h:120): between two calls, with none in the other's way     *)
(* since start(), the number is that of the first frame recorded since then *)
(* that fires the trigger.                                                  *)
THEOREM TriggerSeqNamesIt == Spec => []TriggerNamed
<1>1. TypeOK /\ RunInv => TriggerNamed
  <2> SUFFICES ASSUME TypeOK, RunInv, Still, triggered, cfg.trigger = "event"
               PROVE  /\ triggerSeq \in armedAt .. written - 1
                      /\ triggerSeq >= Oldest => Held[triggerSeq].event
                      /\ \A seq \in Oldest .. written - 1 :
                             seq \in armedAt .. triggerSeq - 1 => ~Held[seq].event
    BY DEF TriggerNamed
  <2>1. EventRun /\ web.at = "idle"
    BY Zenon DEF RunInv, Waiting, Still
  <2>2. Named
    BY <2>1 DEF EventRun
  <2>3. QED
    BY <2>2 DEF Named, Recorded
<1>2. QED
  BY <1>1, InitRun, RunKeeps, TypeCorrect, InitTyped, PTL DEF Spec

(* "frames after the trigger before it stops" (bus_monitor.h:142,           *)
(* bus_monitor.cpp:337): as many, and no more, for every size of the ring   *)
(* and every limit.                                                         *)
THEOREM PostFramesExact == Spec => []PostExact
<1>1. TypeOK /\ RunInv => PostExact
  <2> SUFFICES ASSUME TypeOK, RunInv, Still, fired, cfg.trigger = "event", cfg.post > 0
               PROVE  /\ state = "running" => after < cfg.post
                      /\ state = "full" => after = cfg.post \/ missed > 0
    BY DEF PostExact
  <2>1. EventRun /\ main.at = "idle"
    BY Zenon DEF RunInv, Waiting, Still
  <2>2. after \in Int /\ cfg.post \in Nat
    BY Typed
  <2>3. QED
    BY <2>1, <2>2 DEF EventRun, Counts
<1>2. QED
  BY <1>1, InitRun, RunKeeps, TypeCorrect, InitTyped, PTL DEF Spec

-----------------------------------------------------------------------------
(* The tail, as long as a run that has a ring keeps it: the frames since    *)
(* its begin() backwards from the head, the newest one first. While hook()  *)
(* is between the slot and the head the newest one may sit on the oldest.   *)
TailSlot(k) == (tailHead + Tail - k) % Tail
Seen == frames - runStart
Least(a, b) == IF a < b THEN a ELSE b
TailKept ==
    /\ tailValid /\ runStart =< frames
    /\ IF main.at \in {"head", "count"} THEN 0 < Seen /\ tailCount = Least(Seen - 1, Tail)
                                       ELSE tailCount = Least(Seen, Tail)
    /\ main.at = "head" =>
           /\ tail[tailHead].n = frames /\ tail[tailHead].run = run
           /\ \A k \in 1 .. Least(Seen - 1, Tail) :
                  tail[TailSlot(k)].run = run /\ (k < Tail => tail[TailSlot(k)].n = frames - k)
    /\ main.at # "head" =>
           \A k \in 1 .. Least(Seen, Tail) :
               tail[TailSlot(k)].run = run /\ tail[TailSlot(k)].n = frames + 1 - k
TailInv == avail => TailKept

(* The tail: k back from its head, around the end.                          *)
LEMMA TailFormula ==
    ASSUME NEW h \in 0 .. Tail - 1, NEW k \in 1 .. Tail
    PROVE  /\ (h + Tail - k) % Tail = IF h < k THEN h + Tail - k ELSE h - k
           /\ (h + Tail - k) % Tail \in 0 .. Tail - 1
           /\ (h + Tail - k) % Tail = h => k = Tail
<1>1. Tail \in Nat \ {0}
  BY LimitAssumption
<1>2. (h + Tail - k) % Tail = IF h < k THEN h + Tail - k ELSE h - k
  BY <1>1
<1>3. QED
  BY <1>1, <1>2

LEMMA Around ==
    ASSUME NEW h \in 0 .. Tail - 1, NEW i \in 0 .. Tail - 1
    PROVE  (h + i) % Tail = IF h + i < Tail THEN h + i ELSE h + i - Tail
BY LimitAssumption

LEMMA NextTailSlot ==
    ASSUME NEW h \in 0 .. Tail - 1
    PROVE  (h + 1) % Tail = IF h = Tail - 1 THEN 0 ELSE h + 1
BY LimitAssumption

(* One further on, everything is one further back.                          *)
LEMMA TailShifted ==
    ASSUME NEW h \in 0 .. Tail - 1, NEW k \in 1 .. Tail - 1
    PROVE  (((h + 1) % Tail) + Tail - (k + 1)) % Tail = (h + Tail - k) % Tail
<1>1. Tail \in Nat \ {0} /\ k \in 1 .. Tail /\ k + 1 \in 1 .. Tail
  BY LimitAssumption
<1>2. PICK n \in 0 .. Tail - 1 : n = (h + 1) % Tail /\ n = IF h = Tail - 1 THEN 0 ELSE h + 1
  BY <1>1, NextTailSlot
<1>3. (n + Tail - (k + 1)) % Tail = IF n < k + 1 THEN n + Tail - (k + 1) ELSE n - (k + 1)
  BY <1>1, TailFormula
<1>4. (h + Tail - k) % Tail = IF h < k THEN h + Tail - k ELSE h - k
  BY <1>1, TailFormula
<1>5. QED
  BY <1>1, <1>2, <1>3, <1>4

LEMMA TailTyped ==
    TypeOK => /\ tail \in [0 .. Tail - 1 -> Frame] /\ tailHead \in 0 .. Tail - 1
              /\ tailCount \in 0 .. Tail /\ Tail \in Nat \ {0}
              /\ frames \in Nat /\ runStart \in Nat /\ run \in Nat
              /\ main \in [at : MainSteps, frame : Frame, seen : States]
BY Parts, LimitAssumption DEF TailOK, NumbersOK, TasksOK

(* remember(), the slot.                                                    *)
LEMMA ArriveTail ==
    ASSUME TypeOK, TailKept, Arrive
    PROVE  TailKept'
<1>1. /\ tail \in [0 .. Tail - 1 -> Frame] /\ tailHead \in 0 .. Tail - 1
      /\ tailCount \in 0 .. Tail /\ Tail \in Nat \ {0}
      /\ frames \in Nat /\ runStart \in Nat
  BY TailTyped
<1>2. PICK f : /\ f.n = frames + 1 /\ f.run = run
               /\ tail' = [tail EXCEPT ![tailHead] = f] /\ tailHead' = tailHead
               /\ main'.at = "head"
  <2>1. PICK side \in Sides, event \in BOOLEAN :
          LET f == [n |-> frames + 1, side |-> side, event |-> event, run |-> run]
              slot == IF tailValid THEN tailHead ELSE 0
          IN /\ tail' = [tail EXCEPT ![slot] = f] /\ tailHead' = slot
             /\ main' = [at |-> "head", frame |-> f, seen |-> "off"]
    BY DEF Arrive
  <2>2. tailValid
    BY DEF TailKept
  <2> DEFINE f == [n |-> frames + 1, side |-> side, event |-> event, run |-> run]
  <2>3. f.n = frames + 1 /\ f.run = run
    OBVIOUS
  <2>4. tail' = [tail EXCEPT ![tailHead] = f] /\ tailHead' = tailHead /\ main'.at = "head"
    BY <2>1, <2>2
  <2> HIDE DEF f
  <2>5. QED
    BY <2>3, <2>4
<1>3. /\ tailCount' = tailCount /\ tailValid' /\ frames' = frames + 1 /\ runStart' = runStart
      /\ run' = run /\ main.at = "idle"
  BY DEF Arrive, TailKept
<1>4. runStart =< frames /\ tailCount = Least(Seen, Tail)
  BY <1>3 DEF TailKept
<1>5. /\ 0 < Seen' /\ Least(Seen - 1, Tail)' = Least(Seen, Tail) /\ runStart' =< frames'
      /\ tailCount' = Least(Seen - 1, Tail)'
  BY <1>1, <1>3, <1>4 DEF Seen, Least
<1>6. ASSUME NEW k \in 1 .. Least(Seen, Tail)
      PROVE  /\ tail'[TailSlot(k)'].run = run'
             /\ k < Tail => tail'[TailSlot(k)'].n = frames' - k
  <2>1. k \in 1 .. Tail /\ TailSlot(k)' = TailSlot(k)
    BY <1>1, <1>2, <1>4 DEF TailSlot
  <2>2. TailSlot(k) \in 0 .. Tail - 1 /\ (TailSlot(k) = tailHead => k = Tail)
    BY <1>1, <2>1, TailFormula DEF TailSlot
  <2>3. tail[TailSlot(k)].run = run /\ tail[TailSlot(k)].n = frames + 1 - k
    BY <1>3 DEF TailKept
  <2>4. CASE TailSlot(k) = tailHead
    BY <1>1, <1>2, <1>3, <2>1, <2>2, <2>4
  <2>5. CASE TailSlot(k) # tailHead
    <3>1. tail'[TailSlot(k)] = tail[TailSlot(k)]
      BY <1>1, <1>2, <2>2, <2>5
    <3>2. tail'[TailSlot(k)'] = tail[TailSlot(k)]
      BY <2>1, <3>1
    <3>3. frames' - k = frames + 1 - k
      BY <1>1, <1>3
    <3>4. QED
      BY <1>3, <2>3, <3>2, <3>3
  <2>6. QED
    BY <2>4, <2>5
<1>7. tail'[tailHead'].n = frames' /\ tail'[tailHead'].run = run'
  BY <1>1, <1>2, <1>3
<1>8. QED
  BY <1>2, <1>3, <1>5, <1>6, <1>7 DEF TailKept

(* remember(), the head: the oldest frame is behind it now, if it was full. *)
LEMMA HeadTail ==
    ASSUME TypeOK, TailKept, RememberHead
    PROVE  TailKept'
<1>1. /\ tail \in [0 .. Tail - 1 -> Frame] /\ tailHead \in 0 .. Tail - 1
      /\ tailCount \in 0 .. Tail /\ Tail \in Nat \ {0}
      /\ frames \in Nat /\ runStart \in Nat
      /\ main \in [at : MainSteps, frame : Frame, seen : States]
  BY TailTyped
<1>2. main.at = "head" /\ main'.at = "count"
  BY <1>1 DEF RememberHead
<1>3. /\ UNCHANGED <<tail, tailCount, tailValid, frames, runStart, run>>
      /\ tailHead' = (tailHead + 1) % Tail
  BY DEF RememberHead, bus
<1>4. /\ tailValid /\ runStart =< frames /\ 0 < Seen /\ tailCount = Least(Seen - 1, Tail)
      /\ tail[tailHead].n = frames /\ tail[tailHead].run = run
  BY <1>2 DEF TailKept
<1>5. ASSUME NEW k \in 1 .. Least(Seen, Tail)
      PROVE  tail[TailSlot(k)'].run = run /\ tail[TailSlot(k)'].n = frames + 1 - k
  <2>1. k \in 1 .. Tail /\ (k - 1 \in 1 .. Tail - 1 \/ k = 1)
        /\ (k # 1 => k - 1 \in 1 .. Least(Seen - 1, Tail))
    BY <1>1, <1>4 DEF Seen, Least
  <2>2. CASE k = 1
    <3>1. (((tailHead + 1) % Tail) + Tail - 1) % Tail = tailHead
      <4>1. PICK n \in 0 .. Tail - 1 :
              n = (tailHead + 1) % Tail /\ n = IF tailHead = Tail - 1 THEN 0 ELSE tailHead + 1
        BY <1>1, NextTailSlot
      <4>2. 1 \in 1 .. Tail
        BY <1>1
      <4>3. (n + Tail - 1) % Tail = IF n < 1 THEN n + Tail - 1 ELSE n - 1
        BY <4>2, TailFormula
      <4>4. QED
        BY <1>1, <4>1, <4>3
    <3>2. TailSlot(k)' = tailHead
      BY <1>3, <2>2, <3>1 DEF TailSlot
    <3>3. frames + 1 - k = frames
      BY <1>1, <2>2
    <3>4. QED
      BY <1>4, <3>2, <3>3
  <2>3. CASE k # 1
    <3>1. PICK j \in 1 .. Tail - 1 : k = j + 1
      BY <2>1, <2>3
    <3>2. TailSlot(k)' = TailSlot(j)
      BY <1>1, <1>3, <3>1, TailShifted DEF TailSlot
    <3>3. tail[TailSlot(j)].run = run /\ tail[TailSlot(j)].n = frames - j
      <4>1. j \in 1 .. Least(Seen - 1, Tail) /\ j < Tail
        BY <1>1, <2>1, <2>3, <3>1
      <4>2. QED
        BY <1>2, <4>1 DEF TailKept
    <3>4. QED
      BY <1>1, <3>1, <3>2, <3>3
  <2>4. QED
    BY <2>2, <2>3
<1>6. Seen' = Seen /\ Least(Seen, Tail)' = Least(Seen, Tail) /\ Least(Seen - 1, Tail)' = Least(Seen - 1, Tail)
  BY <1>3 DEF Seen, Least
<1>7. QED
  BY <1>2, <1>3, <1>4, <1>5, <1>6 DEF TailKept

(* remember(), the count.                                                   *)
LEMMA CountTail ==
    ASSUME TypeOK, TailKept, RememberCount
    PROVE  TailKept'
<1>1. /\ tailCount \in 0 .. Tail /\ Tail \in Nat \ {0} /\ frames \in Nat /\ runStart \in Nat
      /\ main \in [at : MainSteps, frame : Frame, seen : States]
  BY TailTyped
<1>2. main.at = "count" /\ main'.at = "gate"
  BY <1>1 DEF RememberCount
<1>3. /\ UNCHANGED <<tail, tailHead, tailValid, frames, runStart, run>>
      /\ tailCount' = IF tailCount < Tail THEN tailCount + 1 ELSE tailCount
  BY DEF RememberCount, bus
<1>4. 0 < Seen /\ tailCount = Least(Seen - 1, Tail) /\ runStart =< frames
  BY <1>2 DEF TailKept
<1>5. tailCount' = Least(Seen, Tail)
  BY <1>1, <1>3, <1>4 DEF Least, Seen
<1>6. Seen' = Seen /\ Least(Seen, Tail)' = Least(Seen, Tail)
  BY <1>3 DEF Seen, Least
<1>7. ASSUME NEW k \in 1 .. Least(Seen, Tail)
      PROVE  tail[TailSlot(k)].run = run /\ tail[TailSlot(k)].n = frames + 1 - k /\ TailSlot(k)' = TailSlot(k)
  BY <1>2, <1>3 DEF TailKept, TailSlot
<1>8. QED
  BY <1>2, <1>3, <1>4, <1>5, <1>6, <1>7 DEF TailKept

(* The rest of hook() and the web task leave the tail alone.                *)
LEMMA OtherTail ==
    ASSUME TailKept, UNCHANGED <<rtc, bus>>,
           main'.at = main.at \/ {main.at, main'.at} \cap {"head", "count"} = {}
    PROVE  TailKept'
<1>1. UNCHANGED <<tail, tailHead, tailCount, tailValid, frames, run, runStart>>
  BY DEF rtc, bus
<1>2. /\ Seen' = Seen /\ Least(Seen, Tail)' = Least(Seen, Tail)
      /\ Least(Seen - 1, Tail)' = Least(Seen - 1, Tail)
  BY <1>1 DEF Seen, Least
<1>3. \A k : TailSlot(k)' = TailSlot(k)
  BY <1>1 DEF TailSlot
<1>4. CASE main'.at = main.at
  BY <1>1, <1>2, <1>3, <1>4 DEF TailKept
<1>5. CASE {main.at, main'.at} \cap {"head", "count"} = {}
  BY <1>1, <1>2, <1>3, <1>5 DEF TailKept
<1>6. QED
  BY <1>4, <1>5

(* begin() with a ring empties the tail.                                    *)
LEMMA RestartTail ==
    ASSUME TypeOK, NEW kept \in BOOLEAN, Restart(kept), avail'
    PROVE  TailKept'
<1>1. /\ tailCount' = 0 /\ tailValid' /\ frames' = frames /\ runStart' = frames /\ main'.at = "idle"
  BY DEF Restart, CarryOver, Fresh, Idle
<1>2. frames \in Nat /\ Tail \in Nat \ {0}
  BY TailTyped
<1>3. Seen' = 0 /\ Least(Seen, Tail)' = 0
  BY <1>1, <1>2 DEF Seen, Least
<1>4. QED
  BY <1>1, <1>2, <1>3 DEF TailKept

LEMMA TailKeeps == TypeOK /\ TailInv /\ [Next]_vars => TailInv'
<1> SUFFICES ASSUME TypeOK, TailInv, [Next]_vars, avail' PROVE TailKept'
  BY DEF TailInv
<1>1. main \in [at : MainSteps, frame : Frame, seen : States]
  BY TailTyped
<1>2. ASSUME NEW kept \in BOOLEAN, Restart(kept) PROVE TailKept'
  BY <1>2, RestartTail
<1>3. CASE Arrive \/ RememberHead \/ RememberCount
  <2>1. avail' = avail
    BY <1>3 DEF Arrive, RememberHead, RememberCount, buffer
  <2>2. TailKept
    BY <2>1 DEF TailInv
  <2>3. QED
    BY <1>3, <2>2, ArriveTail, HeadTail, CountTail
<1>4. CASE Gate \/ Append \/ Overflow \/ Trigger \/ Settle
  <2>1. UNCHANGED <<avail, rtc, bus>>
    BY <1>4 DEF Gate, Append, Overflow, Trigger, Settle, buffer
  <2>2. main.at \in {"gate", "append", "settle"} /\ main'.at \in {"append", "settle", "idle"}
    <3>1. CASE Gate
      <4>1. CASE Wanted(main.frame)
        BY <1>1, <3>1, <4>1 DEF Gate
      <4>2. CASE ~Wanted(main.frame)
        BY <3>1, <4>2 DEF Gate, Idle
      <4>3. QED
        BY <4>1, <4>2
    <3>2. CASE Append
      BY <1>1, <3>2 DEF Append
    <3>3. CASE Overflow \/ Trigger \/ Settle
      BY <3>3 DEF Overflow, Trigger, Settle, Idle
    <3>4. QED
      BY <1>4, <3>1, <3>2, <3>3
  <2>3. TailKept
    BY <2>1 DEF TailInv
  <2>4. {main.at, main'.at} \cap {"head", "count"} = {}
    BY <2>2
  <2>5. QED
    BY <2>1, <2>3, <2>4, OtherTail
<1>5. CASE WebTask \/ UNCHANGED vars
  <2>1. UNCHANGED <<avail, rtc, bus, main>>
    BY <1>5 DEF WebTask, StartOff, Configure, Go, Stop, ClearRing, ClearTrigger, vars, buffer
  <2>2. TailKept
    BY <2>1 DEF TailInv
  <2>3. QED
    BY <2>1, <2>2, OtherTail
<1>6. QED
  BY <1>2, <1>3, <1>4, <1>5 DEF Next, MainTask

LEMMA InitTail == Init => TailInv
<1> SUFFICES ASSUME Init, avail PROVE TailKept
  BY DEF TailInv
<1>1. frames = 0 /\ runStart = 0 /\ tailCount = 0 /\ main.at = "idle" /\ tailValid
  BY DEF Init, Idle
<1>2. Seen = 0 /\ Least(Seen, Tail) = 0
  BY <1>1, LimitAssumption DEF Seen, Least
<1>3. QED
  BY <1>1, <1>2 DEF TailKept

(* carryOver() (bus_monitor.cpp:115): after a restart that kept RTC the     *)
(* ring starts with the last frames of the run before, for any length of    *)
(* the tail and at whatever step of hook() the restart struck.              *)
THEOREM CarriesTheTailOver == Spec => CarriedOver
<1>1. TypeOK /\ TailInv /\ [Next]_vars
        => [Restart(TRUE) /\ avail /\ avail' =>
              LET seen == frames - runStart
              IN /\ count' >= (IF seen < Tail THEN seen ELSE Tail) - 1
                 /\ \A i \in 0 .. count' - 1 : ring'[i].run = run
                 /\ count' > 1 => ring'[count' - 1].n \in {frames - 1, frames}
                 /\ \A i \in 1 .. count' - 2 : ring'[i + 1].n = ring'[i].n + 1]_vars
  <2> SUFFICES ASSUME TypeOK, TailInv, Restart(TRUE), avail, avail'
               PROVE  /\ count' >= Least(Seen, Tail) - 1
                      /\ \A i \in 0 .. count' - 1 : ring'[i].run = run
                      /\ count' > 1 => ring'[count' - 1].n \in {frames - 1, frames}
                      /\ \A i \in 1 .. count' - 2 : ring'[i + 1].n = ring'[i].n + 1
    BY DEF Seen, Least
  <2>1. TailKept
    BY DEF TailInv
  <2>2. /\ tail \in [0 .. Tail - 1 -> Frame] /\ tailHead \in 0 .. Tail - 1
        /\ tailCount \in 0 .. Tail /\ Tail \in Nat \ {0} /\ frames \in Nat /\ runStart \in Nat
    BY TailTyped
  <2>3. PICK n \in 0 .. Tail : n = tailCount
    BY <2>2
  <2>4. /\ ring' = [i \in Slots |-> IF i < n THEN tail[(First(n) + i) % Tail] ELSE Blank]
        /\ count' = n
    BY <2>1, <2>3 DEF Restart, Carried, CarryOver, TailKept
  <2>5. ASSUME NEW i \in 0 .. n - 1
        PROVE  n - i \in 1 .. n /\ ring'[i] = tail[TailSlot(n - i)]
    <3>1. i \in Slots /\ i < n /\ n - i \in 1 .. Tail
      BY <2>2, LimitAssumption DEF Slots
    <3>2. (First(n) + i) % Tail = TailSlot(n - i)
      <4>1. First(n) = IF tailHead < n THEN tailHead + Tail - n ELSE tailHead - n
        <5>1. n \in 1 .. Tail
          BY <2>2, <3>1
        <5>2. QED
          BY <2>2, <5>1, TailFormula DEF First
      <4>2. TailSlot(n - i) = IF tailHead < n - i THEN tailHead + Tail - (n - i) ELSE tailHead - (n - i)
        BY <2>2, <3>1, TailFormula DEF TailSlot
      <4>a. First(n) \in 0 .. Tail - 1
        BY <2>2, <3>1, <4>1
      <4>3. PICK h \in 0 .. Tail - 1 : h = First(n)
        BY <4>a
      <4>4. i \in 0 .. Tail - 1
        BY <2>2, <3>1
      <4>5. (h + i) % Tail = IF h + i < Tail THEN h + i ELSE h + i - Tail
        BY <4>4, Around
      <4>6. QED
        BY <2>2, <3>1, <4>1, <4>2, <4>3, <4>5
    <3>3. QED
      BY <2>4, <3>1, <3>2
  <2> DEFINE newest == IF main.at = "head" THEN frames ELSE frames + 1
  <2>a. (main.at = "head" => newest = frames) /\ (main.at # "head" => newest = frames + 1)
    OBVIOUS
  <2>9. newest \in Nat /\ newest - 1 \in {frames - 1, frames}
    BY <2>2
  <2> HIDE DEF newest
  <2>6. ASSUME NEW k \in 1 .. n
        PROVE  tail[TailSlot(k)].run = run /\ (k < Tail => tail[TailSlot(k)].n = newest - k)
    <3>1. CASE main.at = "head"
      <4>1. k \in 1 .. Least(Seen - 1, Tail)
        BY <2>1, <2>3, <3>1 DEF TailKept
      <4>2. QED
        <5>1. tail[TailSlot(k)].run = run /\ (k < Tail => tail[TailSlot(k)].n = frames - k)
          BY <2>1, <3>1, <4>1 DEF TailKept
        <5>2. newest = frames
          BY <2>a, <3>1
        <5>3. QED
          BY <5>1, <5>2
    <3>2. CASE main.at # "head"
      <4>1. k \in 1 .. Least(Seen, Tail)
        BY <2>1, <2>2, <2>3, <3>2 DEF TailKept, Least, Seen
      <4>2. QED
        <5>1. tail[TailSlot(k)].run = run /\ tail[TailSlot(k)].n = frames + 1 - k
          BY <2>1, <3>2, <4>1 DEF TailKept
        <5>2. newest = frames + 1
          BY <2>a, <3>2
        <5>3. QED
          BY <2>2, <5>1, <5>2
    <3>3. QED
      BY <3>1, <3>2
  <2>7. n >= Least(Seen, Tail) - 1
    BY <2>1, <2>2, <2>3 DEF TailKept, Least, Seen
  <2>8. ASSUME NEW i \in 0 .. n - 1 PROVE ring'[i].run = run
    BY <2>5, <2>6
  <2>10. ASSUME n > 1 PROVE ring'[n - 1].n \in {frames - 1, frames}
    <3>1. n - 1 \in 0 .. n - 1 /\ n - (n - 1) = 1 /\ 1 \in 1 .. n /\ 1 < Tail
      BY <2>2, <2>10
    <3>2. ring'[n - 1] = tail[TailSlot(1)]
      BY <2>5, <3>1
    <3>3. tail[TailSlot(1)].n = newest - 1
      BY <2>6, <3>1
    <3>4. QED
      BY <2>9, <3>2, <3>3
  <2>11. ASSUME NEW i \in 1 .. n - 2 PROVE ring'[i + 1].n = ring'[i].n + 1
    <3>1. /\ i \in 0 .. n - 1 /\ i + 1 \in 0 .. n - 1
          /\ n - i \in 1 .. n /\ n - i < Tail /\ n - (i + 1) \in 1 .. n /\ n - (i + 1) < Tail
      BY <2>2, <2>3
    <3>2. ring'[i] = tail[TailSlot(n - i)] /\ ring'[i + 1] = tail[TailSlot(n - (i + 1))]
      BY <2>5, <3>1
    <3>3. tail[TailSlot(n - i)].n = newest - (n - i) /\ tail[TailSlot(n - (i + 1))].n = newest - (n - (i + 1))
      BY <2>6, <3>1
    <3>4. newest - (n - (i + 1)) = (newest - (n - i)) + 1
      BY <2>9
    <3>5. QED
      BY <3>2, <3>3, <3>4
  <2>12. QED
    BY <2>4, <2>7, <2>8, <2>10, <2>11
<1>2. QED
  BY <1>1, InitTail, TailKeeps, TypeCorrect, InitTyped, PTL DEF Spec, CarriedOver

=============================================================================
