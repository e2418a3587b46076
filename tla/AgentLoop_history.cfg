CONSTANTS
  r1 = r1
  r2 = r2
  Runs = {r1}
  NoRun = NoRun
  Heeds = {r1}
  FailMax = 2
  MaxTurns = 1
  MaxCalls = 1
SPECIFICATION Spec
INVARIANT MessagesHaveToolResults
