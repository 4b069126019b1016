--------------------------- MODULE HourMeterProofs ---------------------------
(***************************************************************************)
(* The bounds of the operating hours counter, for every flush limit and    *)
(* every number of hours a pass may find due.                              *)
(***************************************************************************)
EXTENDS HourMeter, TLAPS

(* What makes LossBounded and Persisted inductive: where in a booking, a     *)
(* flush or a reset the total, the pending hours and the two stores stand.  *)
NvsLedger ==
    /\ pc # "put" /\ webPc # "put" => total = nvsHours
    /\ pc = "idle" => pending < Flush
    /\ pc = "set" => local <= Most /\ pending < Flush
    /\ pc \in {"ram", "sum", "take"} => pending <= Most
    /\ pc = "take" => local = total + pending
    /\ pc = "put" => pending = 0 /\ total <= nvsHours + Most
    /\ pc = "clear" => pending = 0
    /\ InReset => pc = "idle" /\ total = 0 /\ pending = 0

RamLedger ==
    /\ attached \/ (pc = "idle" /\ webPc = "idle")
    /\ attached /\ webPc = "idle" /\ pc \in {"idle", "set", "sum", "take"}
        => byte = pending
    /\ pc = "set" => pending <= local /\ local <= pending + MaxDue
    /\ pc = "ram" => byte <= pending /\ pending <= byte + MaxDue
    /\ pc = "put" => total = nvsHours + byte
    /\ pc \in {"put", "clear"} => byte <= Most

(* What makes CountedOnce inductive: neither the reading nor what a restart  *)
(* would make of the stores holds more than was earned, but for the step of *)
(* a flush at which both stores hold the same hours.                        *)
OnceLedger ==
    /\ pc \in {"idle", "sum", "take", "ram"} => Hours <= earned + conjured
    /\ pc = "set" => total + local <= earned + conjured
    /\ pc \in {"put", "clear"} => total <= earned + conjured
    /\ pc # "clear" /\ ~InReset
        => nvsHours + (IF defined THEN byte ELSE 0) <= earned + conjured

(* The ledgers hold until something goes wrong that they do not allow for.   *)
NvsSound == faults \subseteq {"i2c", "sync", "torn"} => NvsLedger
RamSound == faults \subseteq {"sync", "torn"} => RamLedger
OnceSound == faults \subseteq {"sync"} => OnceLedger

(* What makes UndefinedNeverCounted inductive: a byte nobody wrote still has *)
(* the power-on reset flag beside it.                                       *)
FlagGuards ==
    faults \cap {"sync", "i2c"} = {} =>
        /\ attached => defined
        /\ defined \/ porf
        /\ conjured = 0

(* What one byte holds on its way through loop() fits into it.              *)
LEMMA MostType == Most \in Nat /\ Flush <= Most /\ Most <= Top
  BY LimitAssumption DEF Most, Clamped

(* The first boot.                                                          *)
LEMMA InitTypeOK == Init => TypeOK
<1>1. Init => NumbersOK
  BY LimitAssumption DEF Init, NumbersOK
<1>2. Init => FlagsOK
  BY DEF Init, FlagsOK, Steps
<1> QED
  BY <1>1, <1>2 DEF TypeOK

(* The hours and the events stay numbers, and the byte a byte.              *)
LEMMA NextNumbersOK == NumbersOK /\ [Next]_vars => NumbersOK'
<1> SUFFICES ASSUME NumbersOK, [Next]_vars PROVE NumbersOK'
  OBVIOUS
<1> USE DEF NumbersOK
<1>1. CASE Attach
  BY <1>1, LimitAssumption DEF Attach, nvsKeys, Trusted, Adding, InReset
<1>2. CASE FlushSum
  BY <1>2, LimitAssumption DEF FlushSum, nvsKeys, rtc, history
<1>3. CASE FlushTake
  BY <1>3, LimitAssumption DEF FlushTake, nvsKeys, rtc, history
<1>4. CASE FlushPut
  BY <1>4, LimitAssumption DEF FlushPut, NvsAfterPut, rtc
<1>5. CASE FlushClear
  BY <1>5, LimitAssumption DEF FlushClear, WriteRam, RamAfterFlush, nvsKeys
<1>6. CASE Roll
  BY <1>6, LimitAssumption DEF Roll, Clamped, Adding, InReset, nvsKeys, rtc
<1>7. CASE RollSet
  BY <1>7, LimitAssumption DEF RollSet, nvsKeys, rtc, history
<1>8. CASE RollRam
  BY <1>8, LimitAssumption DEF RollRam, FlushDue, WriteRam, nvsKeys
<1>9. CASE ResetMembers
  BY <1>9, LimitAssumption DEF ResetMembers, Adding, nvsKeys, rtc
<1>10. CASE ResetPut
  BY <1>10, LimitAssumption DEF ResetPut, nvsKeys, rtc
<1>11. CASE ResetClear
  BY <1>11, LimitAssumption DEF ResetClear, WriteRam, nvsKeys
<1>12. CASE SyncRtc
  BY <1>12, LimitAssumption DEF SyncRtc, Adding, device, nvsKeys
<1>13. CASE RestartHours
  BY <1>13, LimitAssumption DEF RestartHours, BeginHours, Adding, InReset, rtc
<1>14. CASE Outage
  BY <1>14, LimitAssumption DEF Outage, BeginHours, Adding, InReset
<1>15. CASE UNCHANGED vars
  BY <1>15 DEF vars, device, nvsKeys, rtc, history
<1> QED
  BY <1>1, <1>2, <1>3, <1>4, <1>5, <1>6, <1>7, <1>8, <1>9, <1>10,
     <1>11, <1>12, <1>13, <1>14, <1>15 DEF Next

(* The steps, the flags and the faults keep their values.                   *)
LEMMA NextFlagsOK == FlagsOK /\ [Next]_vars => FlagsOK'
<1> SUFFICES ASSUME FlagsOK, [Next]_vars PROVE FlagsOK'
  OBVIOUS
<1> USE DEF FlagsOK, Steps, Faults
<1>1. CASE Attach
  BY <1>1 DEF Attach, nvsKeys, Trusted, Adding, InReset
<1>2. CASE FlushSum
  BY <1>2 DEF FlushSum, nvsKeys, rtc, history
<1>3. CASE FlushTake
  BY <1>3 DEF FlushTake, nvsKeys, rtc, history
<1>4. CASE FlushPut
  BY <1>4 DEF FlushPut, NvsAfterPut, rtc
<1>5. CASE FlushClear
  BY <1>5 DEF FlushClear, WriteRam, RamAfterFlush, nvsKeys
<1>6. CASE Roll
  BY <1>6 DEF Roll, Clamped, Adding, InReset, nvsKeys, rtc
<1>7. CASE RollSet
  BY <1>7 DEF RollSet, nvsKeys, rtc, history
<1>8. CASE RollRam
  BY <1>8 DEF RollRam, FlushDue, WriteRam, nvsKeys
<1>9. CASE ResetMembers
  BY <1>9 DEF ResetMembers, Adding, nvsKeys, rtc
<1>10. CASE ResetPut
  BY <1>10 DEF ResetPut, nvsKeys, rtc
<1>11. CASE ResetClear
  BY <1>11 DEF ResetClear, WriteRam, nvsKeys
<1>12. CASE SyncRtc
  BY <1>12 DEF SyncRtc, Adding, device, nvsKeys
<1>13. CASE RestartHours
  BY <1>13 DEF RestartHours, BeginHours, Adding, InReset, rtc
<1>14. CASE Outage
  BY <1>14 DEF Outage, BeginHours, Adding, InReset
<1>15. CASE UNCHANGED vars
  BY <1>15 DEF vars, device, nvsKeys, rtc, history
<1> QED
  BY <1>1, <1>2, <1>3, <1>4, <1>5, <1>6, <1>7, <1>8, <1>9, <1>10,
     <1>11, <1>12, <1>13, <1>14, <1>15 DEF Next

(* TypeOK holds in every reachable state: what loop() books and what goes   *)
(* into the RTC never leaves one byte, wherever restarts and resets hit.    *)
THEOREM TypeCorrect == Spec => []TypeOK
<1>1. TypeOK /\ [Next]_vars => TypeOK'
  BY NextNumbersOK, NextFlagsOK DEF TypeOK
<1> QED
  BY InitTypeOK, <1>1, PTL DEF Spec

(* What has gone wrong stays on the record.                                 *)
LEMMA FaultsGrow == [Next]_vars => faults \subseteq faults'
<1> SUFFICES ASSUME [Next]_vars PROVE faults \subseteq faults'
  OBVIOUS
<1>1. CASE Attach
  BY <1>1 DEF Attach, nvsKeys, Trusted, Adding, InReset
<1>2. CASE FlushSum
  BY <1>2 DEF FlushSum, nvsKeys, rtc, history
<1>3. CASE FlushTake
  BY <1>3 DEF FlushTake, nvsKeys, rtc, history
<1>4. CASE FlushPut
  BY <1>4 DEF FlushPut, NvsAfterPut, rtc
<1>5. CASE FlushClear
  BY <1>5 DEF FlushClear, WriteRam, RamAfterFlush, nvsKeys
<1>6. CASE Roll
  BY <1>6 DEF Roll, Clamped, Adding, InReset, nvsKeys, rtc
<1>7. CASE RollSet
  BY <1>7 DEF RollSet, nvsKeys, rtc, history
<1>8. CASE RollRam
  BY <1>8 DEF RollRam, FlushDue, WriteRam, nvsKeys
<1>9. CASE ResetMembers
  BY <1>9 DEF ResetMembers, Adding, nvsKeys, rtc
<1>10. CASE ResetPut
  BY <1>10 DEF ResetPut, nvsKeys, rtc
<1>11. CASE ResetClear
  BY <1>11 DEF ResetClear, WriteRam, nvsKeys
<1>12. CASE SyncRtc
  BY <1>12 DEF SyncRtc, Adding, device, nvsKeys
<1>13. CASE RestartHours
  BY <1>13 DEF RestartHours, BeginHours, Adding, InReset, rtc
<1>14. CASE Outage
  BY <1>14 DEF Outage, BeginHours, Adding, InReset
<1>15. CASE UNCHANGED vars
  BY <1>15 DEF vars, device, nvsKeys, rtc, history
<1> QED
  BY <1>1, <1>2, <1>3, <1>4, <1>5, <1>6, <1>7, <1>8, <1>9, <1>10,
     <1>11, <1>12, <1>13, <1>14, <1>15 DEF Next

(* As long as NVS takes every write and every reset() finds the counter at   *)
(* rest, the total is what NVS holds, but for the step of a flush that       *)
(* writes it and that of a reset.                                           *)
LEMMA NextNvsSound == TypeOK /\ NvsSound /\ [Next]_vars => NvsSound'
<1> SUFFICES ASSUME NumbersOK, FlagsOK, NvsLedger, [Next]_vars,
                    "nvs" \notin faults', "reset" \notin faults'
             PROVE  NvsLedger'
  BY FaultsGrow DEF TypeOK, NvsSound
<1> USE DEF NumbersOK, FlagsOK, NvsLedger, InReset
<1>1. CASE Attach
  BY <1>1, MostType, LimitAssumption DEF Attach, nvsKeys, Trusted, Adding, InReset
<1>2. CASE FlushSum
  BY <1>2, MostType, LimitAssumption DEF FlushSum, nvsKeys, rtc, history
<1>3. CASE FlushTake
  BY <1>3, MostType, LimitAssumption DEF FlushTake, nvsKeys, rtc, history
<1>4. CASE FlushPut
  BY <1>4, MostType, LimitAssumption DEF FlushPut, NvsAfterPut, rtc
<1>5. CASE FlushClear
  BY <1>5, MostType, LimitAssumption
  DEF FlushClear, WriteRam, RamAfterFlush, nvsKeys
<1>6. CASE Roll
  BY <1>6, MostType, LimitAssumption
  DEF Roll, Clamped, Adding, InReset, nvsKeys, rtc, Most
<1>7. CASE RollSet
  BY <1>7, MostType, LimitAssumption DEF RollSet, nvsKeys, rtc, history
<1>8. CASE RollRam
  BY <1>8, MostType, LimitAssumption DEF RollRam, FlushDue, WriteRam, nvsKeys
<1>9. CASE ResetMembers
  BY <1>9, MostType, LimitAssumption DEF ResetMembers, Adding, nvsKeys, rtc
<1>10. CASE ResetPut
  BY <1>10, MostType, LimitAssumption DEF ResetPut, nvsKeys, rtc
<1>11. CASE ResetClear
  BY <1>11, MostType, LimitAssumption DEF ResetClear, WriteRam, nvsKeys
<1>12. CASE SyncRtc
  BY <1>12, MostType, LimitAssumption DEF SyncRtc, Adding, device, nvsKeys
<1>13. CASE RestartHours
  BY <1>13, MostType, LimitAssumption DEF RestartHours, BeginHours, Adding, InReset, rtc
<1>14. CASE Outage
  BY <1>14, MostType, LimitAssumption DEF Outage, BeginHours, Adding, InReset
<1>15. CASE UNCHANGED vars
  BY <1>15 DEF vars, device, nvsKeys, rtc, history
<1> QED
  BY <1>1, <1>2, <1>3, <1>4, <1>5, <1>6, <1>7, <1>8, <1>9, <1>10,
     <1>11, <1>12, <1>13, <1>14, <1>15 DEF Next

(* Losing the RTC byte never costs more than one flush period: whatever the *)
(* RTC does, and wherever restarts hit.                                     *)
THEOREM LossIsBounded == Spec => []LossBounded
<1>1. Init => TypeOK /\ NvsSound
  BY InitTypeOK, LimitAssumption
  DEF Init, NvsSound, NvsLedger, InReset
<1>2. TypeOK /\ NvsSound /\ [Next]_vars => NvsSound'
  BY NextNvsSound
<1>3. TypeOK /\ NvsSound => LossBounded
  <2>1. ASSUME NumbersOK, NvsLedger, pc \in Steps
        PROVE  Hours - nvsHours <= Most
    BY <2>1, MostType, LimitAssumption
    DEF NumbersOK, Steps, NvsLedger, InReset, Hours
  <2> QED
    BY <2>1 DEF TypeOK, FlagsOK, NvsSound, LossBounded
<1> QED
  BY <1>1, <1>2, <1>3, TypeCorrect, PTL DEF Spec

(* With the RTC answering as well, the byte is the pending hours, but for    *)
(* the steps of a booking and of a flush that have not reached it yet.      *)
LEMMA NextRamSound ==
  TypeOK /\ NvsSound /\ RamSound /\ [Next]_vars => RamSound'
<1> SUFFICES ASSUME NumbersOK, FlagsOK, NvsLedger, RamLedger, [Next]_vars,
                    "nvs" \notin faults', "reset" \notin faults',
                    "i2c" \notin faults'
             PROVE  RamLedger'
  BY FaultsGrow DEF TypeOK, NvsSound, RamSound
<1> USE DEF NumbersOK, FlagsOK, NvsLedger, RamLedger, InReset
<1>1. CASE Attach
  BY <1>1, MostType, LimitAssumption DEF Attach, nvsKeys, Trusted, Adding, InReset
<1>2. CASE FlushSum
  BY <1>2, MostType, LimitAssumption DEF FlushSum, nvsKeys, rtc, history
<1>3. CASE FlushTake
  BY <1>3, MostType, LimitAssumption DEF FlushTake, nvsKeys, rtc, history
<1>4. CASE FlushPut
  BY <1>4, MostType, LimitAssumption DEF FlushPut, NvsAfterPut, rtc
<1>5. CASE FlushClear
  BY <1>5, MostType, LimitAssumption
  DEF FlushClear, WriteRam, RamAfterFlush, nvsKeys
<1>6. CASE Roll
  BY <1>6, MostType, LimitAssumption
  DEF Roll, Clamped, Adding, InReset, nvsKeys, rtc
<1>7. CASE RollSet
  BY <1>7, MostType, LimitAssumption DEF RollSet, nvsKeys, rtc, history
<1>8. CASE RollRam
  BY <1>8, MostType, LimitAssumption DEF RollRam, FlushDue, WriteRam, nvsKeys
<1>9. CASE ResetMembers
  BY <1>9, MostType, LimitAssumption DEF ResetMembers, Adding, nvsKeys, rtc
<1>10. CASE ResetPut
  BY <1>10, MostType, LimitAssumption DEF ResetPut, nvsKeys, rtc
<1>11. CASE ResetClear
  BY <1>11, MostType, LimitAssumption DEF ResetClear, WriteRam, nvsKeys
<1>12. CASE SyncRtc
  BY <1>12, MostType, LimitAssumption DEF SyncRtc, Adding, device, nvsKeys
<1>13. CASE RestartHours
  BY <1>13, MostType, LimitAssumption DEF RestartHours, BeginHours, Adding, InReset, rtc
<1>14. CASE Outage
  BY <1>14, MostType, LimitAssumption DEF Outage, BeginHours, Adding, InReset
<1>15. CASE UNCHANGED vars
  BY <1>15 DEF vars, device, nvsKeys, rtc, history
<1> QED
  BY <1>1, <1>2, <1>3, <1>4, <1>5, <1>6, <1>7, <1>8, <1>9, <1>10,
     <1>11, <1>12, <1>13, <1>14, <1>15 DEF Next

(* The first boot meets the ledgers.                                        *)
LEMMA InitLedgers == Init => TypeOK /\ NvsSound /\ RamSound /\ OnceSound
<1>1. Init => NvsSound
  BY LimitAssumption DEF Init, NvsSound, NvsLedger, InReset
<1>2. Init => RamSound
  BY DEF Init, RamSound, RamLedger
<1>3. Init => OnceSound
  BY LimitAssumption DEF Init, OnceSound, OnceLedger, Hours
<1> QED
  BY <1>1, <1>2, <1>3, InitTypeOK

(* A restart at any step loses at most the hours being booked, counts at     *)
(* most one flush twice, and between two bookings changes nothing.          *)
THEOREM RestartKeepsReading == Spec => []Persisted
<1>1. Init => TypeOK /\ NvsSound /\ RamSound
  BY InitLedgers
<1>2. TypeOK /\ NvsSound /\ RamSound /\ [Next]_vars => NvsSound' /\ RamSound'
  BY NextNvsSound, NextRamSound
<1>3. TypeOK /\ NvsSound /\ RamSound => Persisted
  <2>1. ASSUME NumbersOK, NvsLedger, RamLedger, pc \in Steps, attached,
               webPc = "idle"
        PROVE  /\ nvsHours + byte >= Hours - MaxDue
               /\ nvsHours + byte <= Hours + Most
               /\ pc = "idle" => nvsHours + byte = Hours
    BY <2>1, MostType, LimitAssumption
    DEF NumbersOK, Steps, NvsLedger, RamLedger, Hours
  <2> QED
    BY <2>1 DEF TypeOK, FlagsOK, NvsSound, RamSound, InReset, Persisted
<1> QED
  BY <1>1, <1>2, <1>3, TypeCorrect, PTL DEF Spec

(* Nothing that the reading or the stores hold has been counted elsewhere as *)
(* well.                                                                    *)
LEMMA NextOnceSound ==
  TypeOK /\ NvsSound /\ RamSound /\ OnceSound /\ [Next]_vars => OnceSound'
<1> SUFFICES ASSUME NumbersOK, FlagsOK, NvsLedger, RamLedger, OnceLedger,
                    [Next]_vars,
                    "nvs" \notin faults', "reset" \notin faults',
                    "i2c" \notin faults', "torn" \notin faults'
             PROVE  OnceLedger'
  BY FaultsGrow DEF TypeOK, NvsSound, RamSound, OnceSound
<1> USE DEF NumbersOK, FlagsOK, NvsLedger, RamLedger, OnceLedger, InReset, Hours
<1>1. CASE Attach
  BY <1>1, MostType, LimitAssumption DEF Attach, nvsKeys, Trusted, Adding, InReset
<1>2. CASE FlushSum
  BY <1>2, MostType, LimitAssumption DEF FlushSum, nvsKeys, rtc, history
<1>3. CASE FlushTake
  BY <1>3, MostType, LimitAssumption DEF FlushTake, nvsKeys, rtc, history
<1>4. CASE FlushPut
  BY <1>4, MostType, LimitAssumption DEF FlushPut, NvsAfterPut, rtc
<1>5. CASE FlushClear
  BY <1>5, MostType, LimitAssumption
  DEF FlushClear, WriteRam, RamAfterFlush, nvsKeys
<1>6. CASE Roll
  BY <1>6, MostType, LimitAssumption
  DEF Roll, Clamped, Adding, InReset, nvsKeys, rtc
<1>7. CASE RollSet
  BY <1>7, MostType, LimitAssumption DEF RollSet, nvsKeys, rtc, history
<1>8. CASE RollRam
  BY <1>8, MostType, LimitAssumption DEF RollRam, FlushDue, WriteRam, nvsKeys
<1>9. CASE ResetMembers
  BY <1>9, MostType, LimitAssumption DEF ResetMembers, Adding, nvsKeys, rtc
<1>10. CASE ResetPut
  BY <1>10, MostType, LimitAssumption DEF ResetPut, nvsKeys, rtc
<1>11. CASE ResetClear
  BY <1>11, MostType, LimitAssumption DEF ResetClear, WriteRam, nvsKeys
<1>12. CASE SyncRtc
  BY <1>12, MostType, LimitAssumption DEF SyncRtc, Adding, device, nvsKeys
<1>13. CASE RestartHours
  BY <1>13, MostType, LimitAssumption DEF RestartHours, BeginHours, Adding, InReset, rtc
<1>14. CASE Outage
  BY <1>14, MostType, LimitAssumption DEF Outage, BeginHours, Adding, InReset
<1>15. CASE UNCHANGED vars
  BY <1>15 DEF vars, device, nvsKeys, rtc, history
<1> QED
  BY <1>1, <1>2, <1>3, <1>4, <1>5, <1>6, <1>7, <1>8, <1>9, <1>10,
     <1>11, <1>12, <1>13, <1>14, <1>15 DEF Next

(* As long as the stores work, no flush is torn apart and every reset() finds *)
(* the counter at rest, no hour is counted twice, wherever else restarts hit. *)
THEOREM NothingTwice == Spec => []CountedOnce
<1>1. Init => TypeOK /\ NvsSound /\ RamSound /\ OnceSound
  BY InitLedgers
<1>2. TypeOK /\ NvsSound /\ RamSound /\ OnceSound /\ [Next]_vars
        => NvsSound' /\ RamSound' /\ OnceSound'
  BY NextNvsSound, NextRamSound, NextOnceSound
<1>3. TypeOK /\ NvsSound /\ RamSound /\ OnceSound => CountedOnce
  <2>1. ASSUME NumbersOK, NvsLedger, RamLedger, OnceLedger, pc \in Steps
        PROVE  Hours <= earned + conjured
    BY <2>1, MostType, LimitAssumption
    DEF NumbersOK, Steps, NvsLedger, RamLedger, OnceLedger, Hours
  <2> QED
    BY <2>1 DEF TypeOK, FlagsOK, NvsSound, RamSound, OnceSound, CountedOnce
<1> QED
  BY <1>1, <1>2, <1>3, TypeCorrect, PTL DEF Spec

(* While nobody sets the clock before the counter has looked at the byte,    *)
(* the power-on reset flag tells a written byte from an undefined one.      *)
LEMMA NextFlagGuards == TypeOK /\ FlagGuards /\ [Next]_vars => FlagGuards'
<1> SUFFICES ASSUME NumbersOK, FlagsOK, FlagGuards, [Next]_vars
             PROVE  FlagGuards'
  BY DEF TypeOK
<1> USE DEF NumbersOK, FlagsOK, FlagGuards
<1>1. CASE Attach
  BY <1>1 DEF Attach, nvsKeys, Trusted, Adding, InReset
<1>2. CASE FlushSum
  BY <1>2 DEF FlushSum, nvsKeys, rtc, history
<1>3. CASE FlushTake
  BY <1>3 DEF FlushTake, nvsKeys, rtc, history
<1>4. CASE FlushPut
  BY <1>4 DEF FlushPut, NvsAfterPut, rtc
<1>5. CASE FlushClear
  BY <1>5 DEF FlushClear, WriteRam, RamAfterFlush, nvsKeys
<1>6. CASE Roll
  BY <1>6 DEF Roll, Clamped, Adding, InReset, nvsKeys, rtc
<1>7. CASE RollSet
  BY <1>7 DEF RollSet, nvsKeys, rtc, history
<1>8. CASE RollRam
  BY <1>8 DEF RollRam, FlushDue, WriteRam, nvsKeys
<1>9. CASE ResetMembers
  BY <1>9 DEF ResetMembers, Adding, nvsKeys, rtc
<1>10. CASE ResetPut
  BY <1>10 DEF ResetPut, nvsKeys, rtc
<1>11. CASE ResetClear
  BY <1>11 DEF ResetClear, WriteRam, nvsKeys
<1>12. CASE SyncRtc
  BY <1>12 DEF SyncRtc, Adding, device, nvsKeys
<1>13. CASE RestartHours
  BY <1>13 DEF RestartHours, BeginHours, Adding, InReset, rtc
<1>14. CASE Outage
  BY <1>14 DEF Outage, BeginHours, Adding, InReset
<1>15. CASE UNCHANGED vars
  BY <1>15 DEF vars, device, nvsKeys, rtc, history
<1> QED
  BY <1>1, <1>2, <1>3, <1>4, <1>5, <1>6, <1>7, <1>8, <1>9, <1>10,
     <1>11, <1>12, <1>13, <1>14, <1>15 DEF Next

(* Whatever the RAM powers up with, the counter does not take it over -      *)
(* provided the clock is not set in the first minute after the start.       *)
(* Restarts and resets may hit anywhere.                                    *)
THEOREM UndefinedIsDiscarded == Spec => []UndefinedNeverCounted
<1>1. Init => FlagGuards
  BY DEF Init, FlagGuards
<1>2. FlagGuards => UndefinedNeverCounted
  BY DEF FlagGuards, UndefinedNeverCounted
<1> QED
  BY <1>1, <1>2, NextFlagGuards, TypeCorrect, PTL DEF Spec

=============================================================================
