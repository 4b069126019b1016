SPECIFICATION StudySpec
CONSTANTS
  Masks <- SomeMasks
  Buttons = {"all"}
  WebCalls = {"unlock"}
  NvsMayFail = FALSE
  Span = 32
  UnlockMs = 6
  GraceMs = 3
  Stall = 2
PROPERTIES
  EndedForGood
