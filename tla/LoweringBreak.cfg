SPECIFICATION Spec
CONSTANTS
  Plans <- ChosenPlans
  Statements <- ChosenStatements
  DeclaredSet <- CompletionSet
  Breaking = {"break"}
INVARIANTS
  BreakStaysInTheLoop
