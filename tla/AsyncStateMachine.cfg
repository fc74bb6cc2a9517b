SPECIFICATION Spec
CONSTANTS
  Breaking = {}
  Programs <- ChosenBodies
  Machines <- BuiltMachines
INVARIANTS
  TypeOK
PROPERTIES
  ImplementsSource
