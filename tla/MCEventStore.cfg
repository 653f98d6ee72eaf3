SPECIFICATION Spec
CONSTANTS
  Rejected = Rejected
  NoCommand = NoCommand
  Streams <- MCStreams
  AggregateOf <- MCAggregateOf
  Types <- MCTypes
  Commands <- MCCommands
  Target <- MCTarget
  Decide <- MCDecide
  Imports <- MCImports
INVARIANTS
  StreamsContiguous
  AnswersMatchLog
  DomainRules
PROPERTIES
  AtomicSpec
\* Every call ends; nothing more happens then.
CHECK_DEADLOCK FALSE
