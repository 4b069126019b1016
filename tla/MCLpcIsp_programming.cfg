SPECIFICATION FairSpec
CONSTANTS
  a = a
  b = b
  Clients <- Two
  Chunks = 2
  Hex = {a}
  Kinds = {"probe", "flash", "run", "fetch"}
  MaxJobs = 2
  MaxUploads = 2
INVARIANTS
  OneMaster
  StagedWhole
  
  
PROPERTIES
  StackReturns
CHECK_DEADLOCK FALSE
