SPECIFICATION Spec
CONSTANTS
  Values = {0, 1, 2}
  Defaults <- MCDefaults
  Blank <- MCBlank
  Old <- MCOld
  Valid <- MCValid
  Crashing <- MCCrashing
  Patches <- MCPatches
  MaxEvents = 4
INVARIANTS
  AcceptedIsStored
CHECK_DEADLOCK FALSE
