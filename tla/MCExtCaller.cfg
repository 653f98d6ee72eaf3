SPECIFICATION FairSpec
CONSTANTS
  LogLen = 2
  Matching = {2}
  Responses = {"none", "one", "two"}
  FollowUps <- MCFollowUps
  Dispatches = {"inline", "batched"}
  MaxAttempts = 2
  None = None
  MaxFaults = 2
INVARIANTS
  WorkIsKept
  FollowUpsDoNotMix
  AnsweredOnce
PROPERTIES
  WorkSettles
\* Every event's work ends; nothing more happens then.
CHECK_DEADLOCK FALSE
