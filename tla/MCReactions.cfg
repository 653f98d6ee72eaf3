SPECIFICATION FairSpec
CONSTANTS
  Rejected = Rejected
  NoCommand = NoCommand
  Nobody = Nobody
  Streams <- RStreams
  AggregateOf <- RAggregateOf
  Types <- RTypes
  Commands <- RCommands
  Target <- RTarget
  Decide <- RDecide
  Reactors <- MCReactors
  Scripted = {"task_completion_note"}
  HostReact <- MCHostReact
  FulfilTask <- RFulfilTask
  CompletionNote <- RCompletionNote
  Users <- MCUsers
  Histories <- MCHistories
  MaxFaults = 2
INVARIANTS
  ReactedOnce
  NothingSkipped
PROPERTIES
  EveryoneReacts
\* Every command and every reaction ends; nothing more happens then.
CHECK_DEADLOCK FALSE
