---------------------------- MODULE CompletionRun ----------------------------
(***************************************************************************)
(* A body that runs by the rules of SourceRules, whatever its expressions  *)
(* evaluate to and whatever throws, and the completion set the compiler    *)
(* has computed for it.                                                    *)
(*                                                                         *)
(* Bodies are trees of any size.  Nothing is asked of the completion sets  *)
(* but that the set of each statement is made of those of its parts as     *)
(* CompletionAlgebra says, which is how the compiler computes them.        *)
(***************************************************************************)
EXTENDS SourceRules

CONSTANTS
  Statements,      \* the statements of the bodies, and those inside them
  DeclaredSet(_)   \* the completion set computed for a statement

Simple == {"step", "let", "await"}

Proper == Simple \cup {"return", "returnAwait", "throw", "break", "continue", "block", "if",
                       "for", "switch", "try"} \cup Loops

PartsAre(statement, kinds) == \A i \in DOMAIN statement.parts : statement.parts[i].kind \in kinds

PartIs(statement, part, kinds) == statement.parts[part].kind \in kinds

\* The parts a statement has by its kind.  What stands in the head of a for
\* is an expression or a declaration.
WellFormed(statement) ==
  \/ statement.kind \in {"absent", "test"} \cup Simple
  \/ statement.kind \in {"return", "returnAwait", "throw", "break", "continue"}
  \/ statement.kind = "block" /\ PartsAre(statement, Proper)
  \/ statement.kind = "if" /\ Len(statement.parts) \in {1, 2} /\ PartsAre(statement, Proper)
  \/ statement.kind \in Loops /\ Len(statement.parts) = 1 /\ PartsAre(statement, Proper)
  \/ /\ statement.kind = "for" /\ Len(statement.parts) = 4
     /\ PartIs(statement, Initializer, {"absent"} \cup Simple)
     /\ PartIs(statement, ForTest, {"absent", "test"})
     /\ PartIs(statement, Update, {"absent"} \cup Simple)
     /\ PartIs(statement, ForBody, Proper)
  \/ statement.kind = "switch" /\ PartsAre(statement, {"case", "default"})
  \/ /\ statement.kind \in {"case", "default"} /\ Len(statement.parts) = 1
     /\ PartsAre(statement, {"block"})
  \/ /\ statement.kind = "try" /\ Len(statement.parts) = 3
     /\ PartIs(statement, TryBody, Proper)
     /\ PartIs(statement, Handler, {"absent"} \cup Proper)
     /\ PartIs(statement, Finalizer, {"absent"} \cup Proper)

\* The sets solve the equations of the algebra.
Computed(statement) ==
  DeclaredSet(statement) =
    Completions(statement, [i \in DOMAIN statement.parts |-> DeclaredSet(statement.parts[i])])

AreTrees(statements) ==
  \A statement \in statements :
    /\ statement.parts \in Seq(statements)
    /\ WellFormed(statement)
    /\ Computed(statement)

ASSUME StatementsAssumption == AreTrees(Statements)

VARIABLES
  body,     \* the body that runs
  control   \* what it does next

bodyVars == <<body, control>>

BodyInit ==
  /\ body \in Statements /\ body.kind \in Proper
  /\ control = Beginning

EnterStatement ==
  /\ control.kind = "enter"
  /\ control' = EnterStep(body, control)
  /\ UNCHANGED body

CompleteStatement ==
  /\ control.kind = "complete"
  /\ control' = CompleteStep(body, control)
  /\ UNCHANGED body

EvaluateExpression(outcome) ==
  /\ control.kind \in {"evaluate", "await"}
  /\ outcome \in Outcomes(body, control)
  /\ control' = Continuation(body, control, outcome)
  /\ UNCHANGED body

BodyNext ==
  \/ EnterStatement
  \/ CompleteStatement
  \/ \E outcome \in {"value", "fulfilled", "true", "false", "throw"} : EvaluateExpression(outcome)

BodySpec == BodyInit /\ [][BodyNext]_bodyVars

-----------------------------------------------------------------------------
(* Properties.                                                             *)

\* The completion a completion in flight is one of.
Way(completion) == Completion(completion.kind, completion.target)

\* The completion set the compiler computes for a body names every way in
\* which control really leaves it.
CompletionsAreDeclared ==
  control.kind = "settle" => Way(control.completion) \in DeclaredSet(body)

=============================================================================
