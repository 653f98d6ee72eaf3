SPECIFICATION FairSpec
CONSTANTS
  Log <- MCLog
  MaxVersion = 3
  PurgeFirst = FALSE
  Revisits = FALSE
  Nobody = Nobody
  MaxStops = 2
  MaxFaults = 2
INVARIANTS
  IndexFaithful
  ErasedGone
  PurgeClears
PROPERTIES
  SwitchKeepsUp
  SearchCatchesUp
\* Every event is indexed; nothing more happens then.
CHECK_DEADLOCK FALSE
