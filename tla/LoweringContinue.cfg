SPECIFICATION Spec
CONSTANTS
  Plans <- ChosenPlans
  Statements <- ChosenStatements
  DeclaredSet <- CompletionSet
  Breaking = {"continue"}
INVARIANTS
  ContinueLeavesTheStates
