SPECIFICATION Spec
CONSTANTS
  LogLen = 2
  Matching = {2}
  Responses = {"none", "one", "two"}
  FollowUps <- MCFollowUps
  Dispatches = {"inline", "batched"}
  MaxAttempts = 3
  None = None
  MaxFaults = 0
INVARIANTS
  ConflictIsRedecided
\* Every event's work ends; nothing more happens then.
CHECK_DEADLOCK FALSE
