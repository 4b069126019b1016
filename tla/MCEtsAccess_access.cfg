SPECIFICATION StudySpec
CONSTANTS
  Masks <- SomeMasks
  Buttons = {"tp", "net", "all", "unlock"}
  WebCalls = {"set", "unlock"}
  NvsMayFail = TRUE
  Span = 32
  UnlockMs = 6
  GraceMs = 3
  Stall = 2
INVARIANTS
  UnlockLasts
  WindowBounded
PROPERTIES
  NetRestored
  EndedStaysEnded
