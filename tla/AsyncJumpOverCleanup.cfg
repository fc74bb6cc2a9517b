SPECIFICATION Spec
CONSTANTS
  Breaking = {"jump"}
  Programs <- ChosenBodies
  Machines <- BuiltMachines
INVARIANTS
  CleanupRunsOnEveryRoute
