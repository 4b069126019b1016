------------------------------- MODULE Device -------------------------------
(* The main program around the network (main.cpp:90-220): setup() lets the  *)
(* hardware profile count the start before the network chooses its mode,    *)
(* and a failover of the network restarts the device under the guard of the *)
(* profile. NetManager is composed with CrashGuard, which HwConfig          *)
(* implements; the proof of the profile is the same in both.                *)
EXTENDS NetManager

VARIABLES
  at, set, boots, has,   \* of CrashGuard
  rough,    \* history: starts that were counted and ended otherwise than by a
            \* failover, since the counter stood at 0
  refused   \* history: NVS refused the note of a proof since then

profileVars == <<at, set, boots, has>>
tally == <<rough, refused>>
deviceVars == <<netVars, profileVars, tally>>

Guard == INSTANCE CrashGuard WITH cleared <- proven

DeviceTypeOK ==
  /\ NetTypeOK /\ Guard!GuardTypeOK
  /\ rough \in 0..Guard!MAX_BOOT_ATTEMPTS /\ refused \in BOOLEAN

DeviceInit ==
  /\ NetInit /\ Guard!GuardInit
  /\ rough = 0 /\ refused = FALSE

(* What a step makes of the tally: whether it ends a start roughly, and     *)
(* whether a proof was refused.                                             *)
Raised == IF rough < Guard!MAX_BOOT_ATTEMPTS THEN rough + 1 ELSE rough
Tallied(ends, refusal) ==
  /\ rough' = IF boots' = 0 THEN 0 ELSE IF ends THEN Raised ELSE rough
  /\ refused' = (boots' # 0 /\ (refused \/ refusal))

(* setup(): the profile first, the network later; between them lies all     *)
(* that a bad profile may crash in.                                         *)
ProfileBegins ==
  /\ phase = "off" /\ Guard!Start
  /\ UNCHANGED netVars /\ Tallied(FALSE, FALSE)

NetBegins ==
  /\ at = "up" /\ Begin
  /\ UNCHANGED <<profileVars, tally>>

EndsEarly ==
  /\ phase = "off" /\ at # "boot" /\ Guard!End
  /\ UNCHANGED netVars /\ Tallied(at = "up", FALSE)

(* loop(): the network, then the profile; its proof is noted in the pass    *)
(* that finds it old enough.                                                *)
Pass ==
  /\ Loop
  /\ \/ proven' = proven /\ UNCHANGED <<profileVars, tally>>
     \/ proven' # proven /\ Guard!Noted /\ Tallied(FALSE, FALSE)
     \/ proven' # proven /\ Guard!Unnoted /\ Tallied(FALSE, has)

(* The scheduled restart, which may erase all of NVS.                       *)
Restarts ==
  /\ Restart
  /\ IF ram.erase THEN Guard!Erase ELSE Guard!End
  /\ Tallied(by \notin {"away", "back"}, FALSE)

PowerGoes ==
  /\ PowerCut
  /\ \/ Guard!End /\ nvs' = nvs
     \/ Guard!Erase /\ nvs' = NvsDefaults
  /\ Tallied(TRUE, FALSE)

(* Profiles from the dashboard, whose server runs once the network began.   *)
ProfileStored ==
  /\ phase # "off" /\ Guard!Store
  /\ UNCHANGED netVars /\ Tallied(FALSE, FALSE)

Elsewhere ==
  /\ Waiting \/ WaitOver \/ Users \/ Tick \/ WireChanges \/ AirChanges
  /\ UNCHANGED <<profileVars, tally>>

DeviceNext ==
  \/ ProfileBegins \/ NetBegins \/ EndsEarly
  \/ Pass \/ Restarts \/ PowerGoes
  \/ ProfileStored \/ Elsewhere

DeviceSpec == DeviceInit /\ [][DeviceNext]_deviceVars
---------------------------------------------------------------------------
(* The guard drops a stored profile only after as many starts as it allows  *)
(* were counted and ended in a crash, a cut or by a user: a cable that      *)
(* flaps, however often the device fails over and back, never throws the    *)
(* profile away (net_manager.cpp:51-54), unless NVS refused to note that    *)
(* the profile works.                                                       *)
DropsOnlyRough == [][Guard!Drop => rough = Guard!MAX_BOOT_ATTEMPTS \/ refused]_deviceVars
=============================================================================
