SPECIFICATION Spec
CONSTANTS
  Online = {"v2", "v3"}
  Clients = {"anna", "bert"}
  Checks = {"c1", "c2"}
  Installs = {"i1", "i2"}
  Chunks = 2
  MaxRequests = 3
  Times = {"noon", "dusk"}
  MaxTimeEvents = 3
  Tasks = {"app", "net"}
  Lines = {"a", "b"}
  SmallRing = 4
  FullRing = 5
  RtcRing = 3
  CarryMax = 3
  Piece = 2
  MaxLogEvents = 4
  Debounce = 1
  ShortMin = 2
  ShortMax = 3
  Long = 4
  VeryLong = 6
  BootTicks = 3
  MaxStall = 3
  MaxTicks = 11
  ValidPins = {0, 1, 2, 3, 4, 5, 6, 7, 8}
  OutputPins = {0, 1, 2, 3, 4, 6, 7, 8}
  FlashPins = {8}
  BadNames = {"~"}
  GoodUrls = {"https"}
  PsramKib = 2048
  ReserveKib = 256
  Requests <- SomeRequests
  FirstProfile <- LedBase
  Conditions = {0, 1}
  Brightnesses = {25, 100}
  SomeAssigns <- Assigns
  MaxLedEvents = 2
  Values = {"on", "off"}
  MaxWebRequests = 2
  MaxAuthEvents = 5
INVARIANTS
  LinesConserved
  LogExact
  PressMeansItsLength
  ShowsFirstRow
  PinsKeptApart
  OwnHandler
  Recoverable
PROPERTIES
  ActivatesVerified
  ValidEarned
  StatusSettles
  SetApplied
  SentAsAccepted
CHECK_DEADLOCK FALSE
