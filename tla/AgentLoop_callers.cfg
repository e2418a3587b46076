CONSTANTS
  r1 = r1
  r2 = r2
  Runs = {r1, r2}
  NoRun = NoRun
  Heeds = {r1}
  FailMax = 2
  MaxTurns = 1
  MaxCalls = 1
SPECIFICATION FairSpec
INVARIANTS
  TypeOK
  Serialized
PROPERTIES
  CancelledRunsReturn
  ImplementsContract
