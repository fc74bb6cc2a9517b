SPECIFICATION Spec
CONSTANTS
  a = a
  b = b
  c = c
  p = p
  q = q
  Modules <- MCModules
  Packages <- MCPackages
  PackageOf <- MCPackageOf
  Paths <- MCPaths
  Fold <- MCFold
  Slots <- MCSlots
  Outputs <- OutputOutputs
  Renames <- KeepOrMerge
  PackageFiles <- ManifestFile
  LinkGraphs <- OutputGraphs
  EntrySets <- EntryChoices
  Scopes <- Everything
INVARIANT
  BestEffortPathsDistinct
CHECK_DEADLOCK FALSE
