SPECIFICATION FairSpec
CONSTANTS
  Addresses = {a, b}
  Identities = {own, other}
  Factory = own
  Default = unprogrammed
  MaxEvents = 4
INVARIANTS
  WipeSticks
PROPERTIES
  StartsAsOwed
  AddressSaved
CHECK_DEADLOCK FALSE
