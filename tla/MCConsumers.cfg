SPECIFICATION Spec
CONSTANTS
  js = js
  tasks = tasks
  reactor = reactor
  None = None
  Names <- MCNames
  Boot <- MCBoot
  Committers = {js}
  Projections = {js, tasks}
  Effects = {reactor}
  Poison <- PoisonSecond
  Limit = 2
  MaxLog = 2
  MaxSpent = 2
INVARIANTS
  HandledInOrder
  CommittedOnce
  StopIsClean
  StatusHonest
PROPERTIES
  EveryoneCatchesUp
  RebuildsHappen
