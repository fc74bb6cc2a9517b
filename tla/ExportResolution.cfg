SPECIFICATION Spec
CONSTANTS
  a = a
  b = b
  c = c
  d = d
  e = e
  f = f
  app = app
  lib = lib
  Modules <- AllModules
  Names = {"x", "y", "default"}
  Default = "default"
  Graphs <- MCGraphs
INVARIANTS
  PublishedIsTrue
  OtherRefusalsAreErrors
  NamesReachTheirDeclarations
  AcyclicTracesAreExact
CHECK_DEADLOCK FALSE
