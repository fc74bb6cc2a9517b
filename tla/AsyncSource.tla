----------------------------- MODULE AsyncSource -----------------------------
(***************************************************************************)
(* What the body of an async function promises: the order in which its     *)
(* expressions and conditions are evaluated and its awaited tasks are      *)
(* waited for, and how it settles.  This is the source language, the       *)
(* specification the state machine of AsyncStateMachine has to implement.  *)
(***************************************************************************)
EXTENDS SourceSteps

CONSTANT Programs

VARIABLES program, control

vars == <<program, control>>

Start == control = Enter(program)

Init == program \in Programs /\ Start

Evaluate(outcome) ==
  /\ control.kind \in {"evaluate", "await"}
  /\ outcome \in Outcomes(program, control)
  /\ control' = After(program, control, outcome)
  /\ UNCHANGED program

Settle ==
  /\ control.kind = "settle"
  /\ control' = Settled(control)
  /\ UNCHANGED program

\* A settled body has nothing left to do.
Rest == control.kind = "settled" /\ UNCHANGED vars

AllOutcomes == {"value", "fulfilled", "true", "false", "throw"}

Next == \/ \E outcome \in AllOutcomes : Evaluate(outcome)
        \/ Settle
        \/ Rest

\* How any body behaves.
Behaves == Start /\ [][Next]_vars /\ WF_vars(Next)

Spec == Init /\ [][Next]_vars /\ WF_vars(Next)

=============================================================================
