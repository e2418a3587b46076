CONSTANTS
  q1 = q1
  q2 = q2
  Requests = {q1, q2}
  HasDeadline = TRUE
  Heeds = {q1, q2}
SPECIFICATION FairSpec
INVARIANTS
  TypeOK
  ForkOutlivesLoop
  LeakIsLogged
  VerdictIsTrue
PROPERTY RunsEnd
