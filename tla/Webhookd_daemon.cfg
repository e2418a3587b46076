CONSTANTS
  q1 = q1
  q2 = q2
  Requests = {q1, q2}
  HasDeadline = TRUE
  Heeds = {q1, q2}
  DrainCoversRead = TRUE
  ServeMayFail = TRUE
  KillMayComeFirst = TRUE
SPECIFICATION FairSpec
INVARIANTS
  NoAgentLost
  LaunchedIsWaitedFor
PROPERTIES
  CancelledOnlyByTimeout
  RunnerSteps
  SigtermEndsProcess
