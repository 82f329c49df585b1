CONSTANTS
  w1 = w1
  w2 = w2
  a = a
  b = b
  NoTopic = NoTopic
  Workers = {w1, w2}
  Topics = {a, b}
  Qos <- MCQos
  Plans <- MCPlans
SPECIFICATION FairSpec
INVARIANTS TypeOK AppliedIsSubscribed NoForgottenFilter PublishPinsClient
PROPERTY OwnersServed
CHECK_DEADLOCK FALSE
