SPECIFICATION FairSpec
CONSTANTS
  Log <- MCLog
  Hosts <- MCHosts
  Viewers = {"v1"}
  Personal = {"orders"}
  Nobody = Nobody
  Nothing = Nothing
  MaxFaults = 2
INVARIANTS
  IdleIsCurrent
PROPERTIES
  ReadModelsFollow
  ViewersSettle
\* Every event is projected and shown; nothing more happens then.
CHECK_DEADLOCK FALSE
