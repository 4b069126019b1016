------------------------------ MODULE Calendar ------------------------------
(* Dates as the clock chip (rv3028.cpp) and the bus (time_service.cpp) want *)
(* them, computed from the UTC second, and back.                            *)
EXTENDS Integers

Month == 1..12

(* daysFromCivil(): days since 1970-01-01.                                  *)
DaysFromCivil(year, month, day) ==
  LET y == IF month =< 2 THEN year - 1 ELSE year
      era == y \div 400
      yoe == y - era * 400
      doy == (((153 * (month + (IF month > 2 THEN -3 ELSE 9))) + 2) \div 5) + day - 1
  IN (era * 146097) + (yoe * 365) + (yoe \div 4) - (yoe \div 100) + doy - 719468

(* civilFromDays().                                                         *)
CivilFromDays(days) ==
  LET shifted == days + 719468
      era == shifted \div 146097
      doe == shifted - era * 146097
      yoe == (doe - (doe \div 1460) + (doe \div 36524) - (doe \div 146096)) \div 365
      doy == doe - ((365 * yoe) + (yoe \div 4) - (yoe \div 100))
      mp == ((5 * doy) + 2) \div 153
      month == IF mp < 10 THEN mp + 3 ELSE mp - 9
  IN [year |-> yoe + (era * 400) + (IF month =< 2 THEN 1 ELSE 0),
      month |-> month, day |-> doy - (((153 * mp) + 2) \div 5) + 1]

ToBcd(value) == (16 * (value \div 10)) + (value % 10)
FromBcd(bcd) == (10 * (bcd \div 16)) + (bcd % 16)

(* The registers writeUtc() fills; a year it cannot hold is refused.        *)
Representable(days) == CivilFromDays(days).year \in 2000..2099
Registers(days, seconds) ==
  LET date == CivilFromDays(days) IN
  [second |-> ToBcd(seconds % 60), minute |-> ToBcd((seconds \div 60) % 60),
   hour |-> ToBcd(seconds \div 3600), weekday |-> ((days % 7) + 11) % 7,
   day |-> ToBcd(date.day), month |-> ToBcd(date.month), year |-> ToBcd(date.year - 2000)]

(* What readUtc() makes of them; the bits it does not need are masked.      *)
Plausible(r) ==
  /\ FromBcd(r.month % 32) \in Month /\ FromBcd(r.day % 64) \in 1..31
  /\ FromBcd(r.hour % 64) \in 0..23 /\ FromBcd(r.minute % 128) \in 0..59
  /\ FromBcd(r.second % 128) \in 0..59
DaysOf(r) == DaysFromCivil(2000 + FromBcd(r.year), FromBcd(r.month % 32), FromBcd(r.day % 64))
SecondsOf(r) ==
  (FromBcd(r.hour % 64) * 3600) + (FromBcd(r.minute % 128) * 60) + FromBcd(r.second % 128)

(* DPT 10.001, 11.001 and 19.001. tm_wday counts Sunday as 0.               *)
KnxWeekday(wday) == IF wday = 0 THEN 7 ELSE wday
EncodeDate(d) ==
  <<d.day % 32, d.month % 16, (IF d.year >= 2000 THEN d.year - 2000 ELSE d.year - 1900) % 256>>
EncodeTime(wday, h, m, s) == <<(32 * KnxWeekday(wday)) + (h % 32), m % 64, s % 64>>
EncodeDateTime(d, wday, h, m, s, summer, synced) ==
  <<(d.year - 1900) % 256, d.month, d.day, (32 * KnxWeekday(wday)) + (h % 32), m % 64, s % 64,
    IF summer THEN 33 ELSE 32, IF synced THEN 128 ELSE 0>>
---------------------------------------------------------------------------
(* The reference: calendar arithmetic by counting days, one after another.  *)
Leap(y) == y % 4 = 0 /\ (y % 100 # 0 \/ y % 400 = 0)
Length(y, m) ==
  IF m = 2 THEN (IF Leap(y) THEN 29 ELSE 28) ELSE IF m \in {4, 6, 9, 11} THEN 30 ELSE 31
NextDay(d) ==
  IF d.day < Length(d.year, d.month)
  THEN [year |-> d.year, month |-> d.month, day |-> d.day + 1]
  ELSE IF d.month < 12 THEN [year |-> d.year, month |-> d.month + 1, day |-> 1]
  ELSE [year |-> d.year + 1, month |-> 1, day |-> 1]
Sample == 0..1 \cup 10956..12420 \cup 47470..47482 \cup {24836, 24837}

(* Every day follows the one before it, from 1970-01-01 on, and both        *)
(* directions agree (rv3028.cpp:28-51).                                     *)
ASSUME CalendarExact ==
  /\ CivilFromDays(0) = [year |-> 1970, month |-> 1, day |-> 1]
  /\ \A n \in Sample :
       LET d == CivilFromDays(n) IN
       /\ DaysFromCivil(d.year, d.month, d.day) = n
       /\ CivilFromDays(n + 1) = NextDay(d)

(* What writeUtc() writes, readUtc() reads, to the second, over the whole   *)
(* range of the chip (rv3028.cpp:174-250).                                  *)
ASSUME ChipRoundTrip ==
  \A n \in Sample, s \in {0, 1, 59, 60, 3599, 36000, 86399} :
    Representable(n) =>
      LET r == Registers(n, s) IN Plausible(r) /\ DaysOf(r) = n /\ SecondsOf(r) = s

(* A date on the bus names its year as long as the format does: 90 and more *)
(* mean the last century there (time_service.cpp:494-501).                  *)
ASSUME BusDateExact ==
  \A y \in 1990..2089 :
    LET coded == EncodeDate([year |-> y, month |-> 12, day |-> 31])[3]
    IN y = (IF coded < 90 THEN 2000 ELSE 1900) + coded
=============================================================================
