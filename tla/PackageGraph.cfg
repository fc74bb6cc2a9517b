SPECIFICATION Spec
CONSTANTS
  a = a
  b = b
  c = c
  p = p
  q = q
  Modules <- MCModules
  Packages <- MCPackages
  PackageOf <- MCPackageOf
  Paths <- MCPaths
  Fold <- MCFold
  Slots <- MCSlots
  Outputs <- PipelineOutputs
  Renames <- KeepOrMerge
  PackageFiles <- ManifestFile
  LinkGraphs <- AllGraphs
  EntrySets <- EntryChoices
  Scopes <- AllOrTail
INVARIANTS
  TypeOK
  RefusalsAreClosure
  ProjectionIsTotal
  PlanMatchesSurvivors
  ContextClosed
  OnlySurvivorsHaveFiles
  PublishedPathsDistinct
PROPERTIES
  ImplementsVerdict
  Terminates
CHECK_DEADLOCK FALSE
