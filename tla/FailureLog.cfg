\* Two callers; each reason fails at most twice.
CONSTANTS
  enqueue = enqueue
  publish = publish
  queueFull = queueFull
  timeout = timeout
  Nothing = Nothing
  Callers = {c1, c2}
  Stages = {enqueue, publish}
  Reasons = {queueFull, timeout}
  StageOf <- MCStageOf
  MaxFailures = 2
SPECIFICATION FairSpec
INVARIANTS
  TypeOK
  CountsAddUp
  LogAlternates
PROPERTIES
  RecoveryConfirmed
  FailureReported
  RecoveryReported
