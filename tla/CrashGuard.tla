----------------------------- MODULE CrashGuard -----------------------------
(* The crash-loop guard of the hardware profile (hw_config.cpp:939-976,     *)
(* 1010-1030): a counter in NVS that a start with a stored profile counts   *)
(* up, and that a start that stays up, a new profile and a reset clear. All *)
(* of HwConfig that a later start sees of it.                               *)
EXTENDS Naturals

VARIABLES
  at,        \* where a start is: before begin(), in the drop, past begin()
  set,       \* NVS: a profile is stored
  boots,     \* NVS: starts with it that did not prove it
  cleared,   \* this start stayed up for HW_PROVEN_MS
  has        \* this start knows a stored profile

guardVars == <<at, set, boots, cleared, has>>

MAX_BOOT_ATTEMPTS == 2

GuardTypeOK ==
  /\ at \in {"boot", "drop", "up"}
  /\ set \in BOOLEAN /\ cleared \in BOOLEAN /\ has \in BOOLEAN
  /\ boots \in 0..MAX_BOOT_ATTEMPTS

GuardInit ==
  /\ at = "boot" /\ set \in BOOLEAN /\ boots = 0
  /\ cleared = FALSE /\ has = FALSE

StartPlain ==
  /\ at = "boot" /\ ~set
  /\ at' = "up" /\ has' = FALSE
  /\ UNCHANGED <<set, boots, cleared>>

StartStored ==
  /\ at = "boot" /\ set /\ boots < MAX_BOOT_ATTEMPTS
  /\ at' = "up" /\ boots' = boots + 1 /\ has' = TRUE
  /\ UNCHANGED <<set, cleared>>

(* The power may go between the two puts of the drop.                       *)
Drop ==
  /\ at = "boot" /\ set /\ boots >= MAX_BOOT_ATTEMPTS
  /\ at' = "drop" /\ set' = FALSE /\ has' = TRUE
  /\ UNCHANGED <<boots, cleared>>

Dropped ==
  /\ at = "drop"
  /\ at' = "up" /\ boots' = 0 /\ has' = FALSE
  /\ UNCHANGED <<set, cleared>>

Start == StartPlain \/ StartStored \/ Drop \/ Dropped

(* The start stayed up: the counter is cleared, unless there is nothing it  *)
(* is the counter of, or NVS does not open.                                 *)
Noted ==
  /\ at = "up" /\ ~cleared /\ has
  /\ cleared' = TRUE /\ boots' = 0
  /\ UNCHANGED <<at, set, has>>

Unnoted ==
  /\ at = "up" /\ ~cleared
  /\ cleared' = TRUE
  /\ UNCHANGED <<at, set, boots, has>>

(* store(): its puts, and what it remembers; resetToDefaults().             *)
Mark == at = "up" /\ set' = TRUE /\ UNCHANGED <<at, boots, cleared, has>>
Settle == at = "up" /\ boots' = 0 /\ UNCHANGED <<at, set, cleared, has>>
Hold == at = "up" /\ has' = TRUE /\ UNCHANGED <<at, set, boots, cleared>>
Forget ==
  /\ at = "up" /\ set' = FALSE /\ boots' = 0 /\ has' = FALSE
  /\ UNCHANGED <<at, cleared>>
Store == Mark \/ Settle \/ Hold \/ Forget

(* The start is over: a restart, a crash, the power; or all of NVS erased.  *)
Over == at' = "boot" /\ cleared' = FALSE /\ has' = FALSE
End == Over /\ UNCHANGED <<set, boots>>
Erase == Over /\ set' = FALSE /\ boots' = 0

GuardNext == Start \/ Noted \/ Unnoted \/ Store \/ End \/ Erase
GuardSpec == GuardInit /\ [][GuardNext]_guardVars
=============================================================================
