------------------------------ MODULE Lowering ------------------------------
(***************************************************************************)
(* Lowering one function body with the passes a backend elects             *)
(* (lowerIrModuleWithCompilerPasses), and then running the lowered body    *)
(* beside the source body.                                                 *)
(*                                                                         *)
(* Control walks the lowered statements by the rules of SourceSteps; where *)
(* it evaluates an expression of the source, source takes the step it has  *)
(* just taken, or is "diverged" if it would take another one.  What it     *)
(* evaluates on temporaries the source knows nothing of.                   *)
(***************************************************************************)
EXTENDS SourceSteps, LoweringPasses, CompletionRun

CONSTANT Plans  \* the bodies to lower, each with the backend that lowers it

ASSUME PlansAssumption == \A plan \in Plans : plan.backend \in {"haxe", "cpp", "rust"}

VARIABLES
  program,      \* the body as the source has it
  backend,      \* whose passes lower it
  stage,        \* how many of them have run
  temporaries,  \* the temporaries declared so far, by name
  source        \* what the source body does next

vars == <<program, backend, stage, body, control, temporaries, source>>

Source == INSTANCE AsyncSource
            WITH control <- source, Programs <- {plan.body : plan \in Plans}

Passes == Pipeline(backend)

Init ==
  /\ \E plan \in Plans : program = plan.body /\ backend = plan.backend
  /\ stage = 0
  /\ body = Placed(program, <<>>)
  /\ control = Idle
  /\ temporaries = <<>>
  /\ source = Enter(program)

IsLowered == stage = Len(Passes)

\* One pass and its verifier; a body the pass refuses, or finds its construct
\* in afterwards, fails the whole plan.
ApplyPass ==
  /\ ~IsLowered /\ ~IsRefused(body)
  /\ LET lowered == LowerWith(Passes[stage + 1], body)
     IN  body' = IF IsRefused(lowered) \/ Remains(Passes[stage + 1], lowered)
                   THEN Refused ELSE lowered
  /\ stage' = stage + 1
  /\ UNCHANGED <<program, backend, control, temporaries, source>>

Begin ==
  /\ IsLowered /\ ~IsRefused(body) /\ control = Idle
  /\ control' = Enter(body)
  /\ UNCHANGED <<program, backend, stage, body, temporaries, source>>

-----------------------------------------------------------------------------
(* Running the lowered body.                                               *)

Current == StatementAt(body, control.path)

\* The source statement an error or a returned value comes from: an error
\* that was saved comes from where it was saved.
Origin(path) ==
  LET statement == StatementAt(body, path)
  IN  IF statement.temporary = NoTemporary THEN statement.from
      ELSE temporaries[statement.temporary]

\* Evaluates an expression of the source, or waits for the task it awaits.
Evaluate(outcome) ==
  /\ control.kind \in {"evaluate", "await"}
  /\ Current.temporary = NoTemporary
  /\ outcome \in Outcomes(body, control)
  /\ control' = After(body, control, outcome)
  /\ source' = IF source.kind = control.kind /\ source.path = Current.from
                 THEN After(program, source, outcome)
                 ELSE [source EXCEPT !.kind = "diverged"]
  /\ UNCHANGED <<program, backend, stage, body, temporaries>>

\* Whether the condition a statement puts on a temporary is met.
Met(statement) ==
  \/ statement.temporary = Literal
  \/ IF statement.kind = "while"
       THEN temporaries[statement.temporary] >= statement.value
       ELSE temporaries[statement.temporary] = statement.value

\* An error is saved where the handler has just caught it.
Assigned(statement) ==
  IF statement.temporary[1] # "error" THEN statement.value
  ELSE IF statement.kind = "step" THEN Origin(control.caught) ELSE <<>>

Compute ==
  /\ control.kind = "evaluate"
  /\ Current.temporary # NoTemporary
  /\ LET outcome == CASE Current.kind \in {"let", "step", "switch"} -> "value"
                      [] Current.kind = "throw" -> "throw"
                      [] OTHER -> IF Met(Current) THEN "true" ELSE "false"
     IN  control' = After(body, control, outcome)
  /\ temporaries' = IF Current.kind \in {"let", "step"}
                      THEN (Current.temporary :> Assigned(Current)) @@ temporaries
                      ELSE temporaries
  /\ UNCHANGED <<program, backend, stage, body, source>>

\* The body is left; what it is left with must be what the source has.
Settle ==
  /\ control.kind = "settle" /\ source.kind # "diverged"
  /\ LET completion == control.completion
         carries == completion.kind \in {"return", "throw"}
         settled == [completion EXCEPT !.from = IF carries THEN Origin(@) ELSE <<>>]
     IN  source' = IF source.kind = "settle" /\ source.completion = settled
                     THEN Settled(source)
                     ELSE [source EXCEPT !.kind = "diverged"]
  /\ control' = Settled(control)
  /\ UNCHANGED <<program, backend, stage, body, temporaries>>

Done == IsRefused(body) \/ source.kind \in {"settled", "diverged"}

Run ==
  \/ \E outcome \in {"value", "fulfilled", "true", "false", "throw"} : Evaluate(outcome)
  \/ Compute
  \/ Settle

Next == \/ ApplyPass
        \/ Begin
        \/ ~Done /\ Run
        \/ Done /\ UNCHANGED vars

Spec == Init /\ [][Next]_vars /\ WF_vars(Next)

-----------------------------------------------------------------------------
(* Properties.                                                             *)

Diverged == source.kind = "diverged"
Ran == stage > 0 /\ ~IsRefused(body)

\* What the lowered body evaluates, waits for and settles with is what the
\* source does next: every step is one of the source, or touches only
\* temporaries and leaves the source where it is; and the completion set of
\* the source body names the way in which that one is left.
StepsAsSource ==
  /\ Source!Start /\ [][Source!Next]_(Source!vars)
  /\ [](source.kind = "settle" => Way(source.completion) \in CompletionSet(program))

\* Work on temporaries never goes on forever: the lowered body always comes
\* to the next thing the source does, or to its end.
ReturnsToSource ==
  []<>(Done \/ (control.kind \in {"evaluate", "await"} /\ Current.temporary = NoTemporary))

\* Each pass declares idempotence: applied to its own output it changes
\* nothing.
PassesAreIdempotent ==
  Ran => LowerWith(Passes[stage], body) = body

\* What a pass removed stays removed: no later pass of the plan brings back
\* a construct an earlier one was elected to remove.
NothingComesBack ==
  Ran => \A i \in 1 .. stage : ~Remains(Passes[i], body)

\* The kinds of the statements around a position of the source.
Around == {StatementAt(program, SubSeq(source.path, 1, i)).kind : i \in 0 .. Len(source.path) - 1}

\* A continue leaves the state loop before it reaches its own: whenever the
\* source has left a switch, the lowered body has left the loop over its
\* states.
ContinueLeavesTheStates == Diverged => "switch" \in Around

\* Control leaves a clause that becomes a branch by its own trailing break
\* only: whenever the source still runs in a loop, the lowered body does.
BreakStaysInTheLoop == Diverged => {"while", "for"} \cap Around = {}

=============================================================================
