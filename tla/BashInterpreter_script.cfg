CONSTANTS
  Top = top
  stage = stage
  job = job
  Stages = {stage}
  Jobs = {job}
  Scripts <- MCScripts
SPECIFICATION BashSpec
INVARIANTS
  BashTypeOK
  AnswerIsTrue
PROPERTY OnlyJobsOutliveTheCall
