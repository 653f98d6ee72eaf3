SPECIFICATION Spec
CONSTANTS
  Rejected = Rejected
  NoCommand = NoCommand
  Streams <- MCStreams
  AggregateOf <- MCAggregateOf
  Types <- MCTypes
  Commands <- MCCommands
  Target <- MCTarget
  Decide <- MCDecide
  Direct <- MCDirect
  MaxBatch = 2
  MaxDepth = 1
  MaxFaults = 1
INVARIANTS
  AppliedSerially
  AcknowledgedIsDurable
  DoneIsSettled
  QueueOrder
PROPERTIES
  EveryCommandSettles
\* Every request ends and the queue drains; nothing more happens then.
CHECK_DEADLOCK FALSE
