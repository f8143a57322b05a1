CONSTANTS
  MaxAttempts = 3
  Refusals <- AllErrors
  ActedErrors <- NoErrors
  PollErrors <- SomePollErrors
SPECIFICATION MutationFairSpec
INVARIANTS ThrottleIsRetried AtMostOnce DoneIsTaken NotAbandoned
PROPERTIES IsRemoteCall FollowsTheOperation MutationIsARemoteCall MutationReturns
CHECK_DEADLOCK FALSE
