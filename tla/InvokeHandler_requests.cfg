CONSTANTS
  MaxBody = 2
  MaxSize = 4
SPECIFICATION FairSpec
INVARIANTS
  OnlyAcceptedIsLaunched
  AnsweredTruly
PROPERTIES
  WebhookdSteps
  EveryRequestEnds
