SPECIFICATION FairSpec
CONSTANTS
  Values = {0, 1, 2}
  Defaults <- MCDefaults
  Blank <- MCBlank
  Old <- MCOld
  Valid <- MCValid
  Crashing <- MCCrashing
  Patches <- MCPatches
  MaxEvents = 4
INVARIANTS
  ReadsBack
  NoRebootOwed
PROPERTIES
  SetMarksWhole
  DropEarned
  GuardKept
  Settles
CHECK_DEADLOCK FALSE
