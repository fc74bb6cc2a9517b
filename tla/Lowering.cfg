SPECIFICATION Spec
CONSTANTS
  Plans <- ChosenPlans
  Statements <- ChosenStatements
  DeclaredSet <- CompletionSet
  Breaking = {}
INVARIANTS
  CompletionsAreDeclared
  PassesAreIdempotent
  NothingComesBack
PROPERTIES
  StepsAsSource
  ReturnsToSource
