SPECIFICATION Spec
CONSTANTS
  Requests <- Mixed
  Capacity = 3
  Tail = 2
  SeqMod = 16
  Sides = {"tp"}
  MaxFrames = 5
  MaxRuns = 2
INVARIANTS
  TriggerNamed
  PostExact
PROPERTIES
  Addressed
  CarriedOver
CHECK_DEADLOCK FALSE
