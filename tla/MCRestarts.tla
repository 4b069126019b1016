----------------------------- MODULE MCRestarts -----------------------------
(* What restarts count, or must not: the boots of the crash-loop guard      *)
(* (Device) and the operating hours (HourMeter). The two share nothing; a   *)
(* behaviour moves one, the other rests, so that their states add up.       *)
EXTENDS Device, HourMeter

VARIABLE counter

HoursRest == Init /\ byte = 0
BootsRest ==
  /\ DeviceInit /\ ~wire /\ ~air /\ fitted = "none" /\ ~set
  /\ nvs = NvsDefaults

CountersInit ==
  \/ counter = "boots" /\ DeviceInit /\ HoursRest
  \/ counter = "hours" /\ Init /\ BootsRest

CountersNext ==
  /\ UNCHANGED counter
  /\ \/ counter = "boots" /\ DeviceNext /\ UNCHANGED vars
     \/ counter = "hours" /\ Next /\ UNCHANGED deviceVars

CountersSpec == CountersInit /\ [][CountersNext]_<<counter, deviceVars, vars>>
=============================================================================
