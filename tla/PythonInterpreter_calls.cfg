CONSTANTS
  p1 = p1
  p2 = p2
  p3 = p3
  NoCall = NoCall
  Calls = {p1, p2, p3}
  Halting = {p1, p2}
SPECIFICATION FairSpec
INVARIANTS
  OneProgramAtATime
  ScriptsAreRemoved
PROPERTIES
  ClashesAreReal
  HaltingCallsReturn
