SPECIFICATION MCSpec
CONSTANTS
  a = a
  b = b
  c = c
  d = d
  Modules <- FourModules
  RequestGraphs <- Graphs
  EntryLists <- EntriesOfEither
  FaultSets <- MaybeFault
INVARIANTS
  TypeOK
  GroupsAreComponents
  GroupsDependencyFirst
  AcyclicOrderIsSourceOrder
  SplitSelectionsAreOpen
  ProjectionEvaluable
PROPERTIES
  Terminates
CHECK_DEADLOCK FALSE
