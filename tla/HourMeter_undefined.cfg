SPECIFICATION Spec
CONSTANTS
  Flush = 3
  Top = 5
  MaxDue = 2
  MaxHours = 6
  MaxEvents = 2
INVARIANTS
  UndefinedRuledOut
CHECK_DEADLOCK FALSE
