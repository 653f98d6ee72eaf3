SPECIFICATION Spec
CONSTANTS
  Rejected = Rejected
  NoCommand = NoCommand
  NoKey = NoKey
  None = None
  Streams <- MCStreams
  AggregateOf <- MCAggregateOf
  Types <- MCTypes
  Commands <- MCCommands
  Target <- MCTarget
  Decide <- MCDecide
  Keys <- MCKeys
  KeyOf <- MCKeyOf
  HashOf <- MCHashOf
  Dispatches = {"inline", "batched"}
  Serial = FALSE
  MaxDepth = 2
  MaxModes = 1
  MaxFaults = 2
INVARIANTS
  AnswersAreTrue
  KeyedRetryAppliesNothing
PROPERTIES
  FirstOutcomeWins
\* Every request ends; nothing more happens then.
CHECK_DEADLOCK FALSE
