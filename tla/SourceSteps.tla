----------------------------- MODULE SourceSteps -----------------------------
(***************************************************************************)
(* How a statement runs, from one evaluation to the next: the rules of     *)
(* SourceRules, followed until something has to be evaluated or waited for *)
(* or the body settles.                                                    *)
(***************************************************************************)
EXTENDS CompletionSets, SourceRules

\* One rule at a time; the singleton has each step evaluated once.
RECURSIVE Follow(_, _)
Follow(body, at) ==
  LET step == IF at.kind = "enter" THEN EnterStep(body, at) ELSE CompleteStep(body, at)
  IN  IF at.kind \in {"enter", "complete"}
        THEN CHOOSE rest \in {Follow(body, next) : next \in {step}} : TRUE
        ELSE at

\* What a body does first.
Enter(body) == Follow(body, Beginning)

\* What the body does next, once the evaluation or the wait had an outcome.
\* The turn alternates, so that a loop which only tests still takes steps.
After(body, at, outcome) ==
  Follow(body, Continuation(body, [at EXCEPT !.caught = <<>>, !.turn = 1 - @], outcome))

Settled(at) == [at EXCEPT !.kind = "settled"]

=============================================================================
