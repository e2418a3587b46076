CONSTANTS
  r1 = r1
  r2 = r2
  Runs = {r1}
  NoRun = NoRun
  Heeds = {r1}
  FailMax = 3
  MaxTurns = 2
  MaxCalls = 2
SPECIFICATION Spec
INVARIANTS
  AnsweredBeforeRequest
  FailureBudget
  ResultIsOwnProgress
