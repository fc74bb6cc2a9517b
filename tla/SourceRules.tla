----------------------------- MODULE SourceRules -----------------------------
(***************************************************************************)
(* How a statement runs: the ECMAScript rules, one at a time.  A control   *)
(* names what a body does next: enter the statement at a path, complete    *)
(* it, evaluate what stands there, wait for the task awaited there, or     *)
(* settle.  The rest of the continuation is the position in the tree, and  *)
(* the completions that wait for the finalizers being run, by the path of  *)
(* the try.  Where a handler has just been entered, caught is the path its *)
(* error was thrown at.                                                    *)
(***************************************************************************)
EXTENDS CompletionAlgebra

Beginning == At("enter", <<>>, <<>>, NoCompletion)

\* Where control goes next; what was caught stays caught on the way.
Moved(at, kind, path, completion) ==
  [kind |-> kind, path |-> path, pending |-> at.pending, completion |-> completion,
   caught |-> at.caught, turn |-> at.turn]

Entering(at, path) == Moved(at, "enter", path, NoCompletion)
Evaluating(at, path) == Moved(at, "evaluate", path, NoCompletion)
Waiting(at) == Moved(at, "await", at.path, NoCompletion)
Completing(at, path, completion) == Moved(at, "complete", path, completion)
Settling(at) == Moved(at, "settle", <<>>, at.completion)

Catching(at, path) == [Entering(at, path) EXCEPT !.caught = at.completion.from]

\* A finalizer runs while what it interrupts waits.
Interrupting(at, try) ==
  [Entering(at, Append(try, Finalizer)) EXCEPT
     !.pending = [p \in DOMAIN at.pending \cup {try} |->
                    IF p = try THEN at.completion ELSE at.pending[p]]]

Resuming(at, try) ==
  [Completing(at, try, IF at.completion.kind = "normal" THEN at.pending[try] ELSE at.completion)
     EXCEPT !.pending = [p \in DOMAIN at.pending \ {try} |-> at.pending[p]]]

-----------------------------------------------------------------------------
(* Entering a statement.                                                   *)

\* The next round of a for statement: its test, where it has one.
Round(statement, at, path) ==
  Entering(at, Append(path, IF Has(statement, ForTest) THEN ForTest ELSE ForBody))

\* The clauses of a switch are tested in order; the default is entered when
\* none matched, wherever it stands.
SwitchFrom(statement, at, path, first) ==
  LET clauses == statement.parts
      tests == {i \in first .. Len(clauses) : clauses[i].kind = "case"}
      defaults == {i \in DOMAIN clauses : clauses[i].kind = "default"}
  IN  IF tests # {} THEN Evaluating(at, Append(path, Min(tests)))
      ELSE IF defaults # {} THEN Entering(at, Append(Append(path, Min(defaults)), 1))
      ELSE Completing(at, path, Falls)

EnterStep(body, at) ==
  LET path == at.path
      statement == StatementAt(body, path)
  IN  CASE statement.kind \in {"break", "continue"} ->
             Completing(at, path, InFlight(Completion(statement.kind, statement.label), path))
        [] statement.kind = "block" ->
             IF statement.parts = <<>> THEN Completing(at, path, Falls)
             ELSE Entering(at, Append(path, 1))
        [] statement.kind \in {"do", "try"} -> Entering(at, Append(path, 1))
        [] statement.kind = "for" ->
             IF Has(statement, Initializer) THEN Entering(at, Append(path, Initializer))
             ELSE Round(statement, at, path)
        [] OTHER -> Evaluating(at, path)

-----------------------------------------------------------------------------
(* Completing a part of a statement.                                       *)

\* What a statement does behind its part, where that does not end it too.
BlockStep(statement, at, path, part) ==
  CASE at.completion.kind = "normal" /\ part < Len(statement.parts) ->
         Entering(at, Append(path, part + 1))
    [] at.completion.kind = "break" /\ statement.label # NoLabel
       /\ at.completion.target = statement.label ->
         Completing(at, path, Falls)
    [] OTHER -> Completing(at, path, at.completion)

\* A loop goes on behind its body, or at a continue of its own.
GoesOn(statement, completion) ==
  \/ completion.kind = "normal"
  \/ completion.kind = "continue" /\ LoopOwns(statement.label, completion)

Breaks(statement, completion) ==
  completion.kind = "break" /\ LoopOwns(statement.label, completion)

LoopStep(statement, at, path) ==
  CASE GoesOn(statement, at.completion) -> Evaluating(at, path)
    [] Breaks(statement, at.completion) -> Completing(at, path, Falls)
    [] OTHER -> Completing(at, path, at.completion)

ForStep(statement, at, path, part) ==
  CASE part \in {Initializer, Update} /\ at.completion.kind = "normal" ->
         Round(statement, at, path)
    [] part = ForBody /\ GoesOn(statement, at.completion) ->
         IF Has(statement, Update) THEN Entering(at, Append(path, Update))
         ELSE Round(statement, at, path)
    [] Breaks(statement, at.completion) -> Completing(at, path, Falls)
    [] OTHER -> Completing(at, path, at.completion)

SwitchStep(statement, at, path, part) ==
  CASE at.completion.kind = "normal" /\ part < Len(statement.parts) ->
         Entering(at, Append(Append(path, part + 1), 1))
    [] Breaks(statement, at.completion) -> Completing(at, path, Falls)
    [] OTHER -> Completing(at, path, at.completion)

TryStep(statement, at, path, part) ==
  IF part = TryBody /\ at.completion.kind = "throw" /\ HasHandler(statement)
    THEN Catching(at, Append(path, Handler))
  ELSE IF part = Finalizer THEN Resuming(at, path)
  ELSE IF HasFinalizer(statement) THEN Interrupting(at, path)
  ELSE Completing(at, path, at.completion)

\* The statement at the path has completed; its parent decides what is next.
CompleteStep(body, at) ==
  LET path == Front(at.path)
      part == Last(at.path)
      statement == StatementAt(body, path)
  IN  IF at.path = <<>> THEN Settling(at) ELSE
      CASE statement.kind = "block" -> BlockStep(statement, at, path, part)
        [] statement.kind \in Loops -> LoopStep(statement, at, path)
        [] statement.kind = "for" -> ForStep(statement, at, path, part)
        [] statement.kind = "switch" -> SwitchStep(statement, at, path, part)
        [] statement.kind = "try" -> TryStep(statement, at, path, part)
        [] OTHER -> Completing(at, path, at.completion)

-----------------------------------------------------------------------------
(* Evaluating what stands at a path, and waiting for a task.               *)

Outcomes(body, at) ==
  LET kind == StatementAt(body, at.path).kind
  IN  CASE at.kind = "await" -> {"fulfilled", "throw"}
        [] kind \in {"if", "while", "do", "test", "case"} -> {"true", "false", "throw"}
        [] kind = "throw" -> {"throw"}
        [] OTHER -> {"value", "throw"}

\* What the body does, once the evaluation or the wait had an outcome.
Continuation(body, at, outcome) ==
  LET path == at.path
      statement == StatementAt(body, path)
  IN  CASE outcome = "throw" -> Completing(at, path, Throws(path))
        [] outcome = "true" ->
             IF statement.kind = "test" THEN Entering(at, Append(Front(path), ForBody))
             ELSE Entering(at, Append(path, 1))
        [] outcome = "false" ->
             IF statement.kind = "test" THEN Completing(at, Front(path), Falls)
             ELSE IF statement.kind = "case"
               THEN SwitchFrom(StatementAt(body, Front(path)), at, Front(path), Last(path) + 1)
             ELSE IF statement.kind = "if" /\ Len(statement.parts) = 2
               THEN Entering(at, Append(path, 2))
             ELSE Completing(at, path, Falls)
        [] outcome = "value" ->
             IF statement.kind = "switch" THEN SwitchFrom(statement, at, path, 1)
             ELSE IF statement.kind \in {"await", "returnAwait"} THEN Waiting(at)
             ELSE IF statement.kind = "return" THEN Completing(at, path, Returns(path))
             ELSE Completing(at, path, Falls)
        [] outcome = "fulfilled" ->
             Completing(at, path, IF statement.kind = "returnAwait" THEN Returns(path) ELSE Falls)

=============================================================================
