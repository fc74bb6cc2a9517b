-------------------------- MODULE AsyncStateMachine --------------------------
(***************************************************************************)
(* The state machine the compiler builds from the body of an async         *)
(* function (compilerAsyncStateMachine.ts), and how it runs in the form    *)
(* the Haxe backend gives it (haxeTaskEmission.ts): every state is a       *)
(* function whose steps run in order under a catch that takes its guard's  *)
(* route, and the continuation of an await is the function of its resume   *)
(* state.                                                                  *)
(*                                                                         *)
(* The build is a function of the body, over before anything runs; draft   *)
(* records what the walk over the statements has collected.  The run is    *)
(* the state space; beside it runs the source body itself, as source,      *)
(* which only ever takes the step the machine has just taken.  Where the   *)
(* source would take another one, source becomes "diverged" and keeps what *)
(* it waited for.                                                          *)
(***************************************************************************)
EXTENDS SourceSteps, AsyncRun

CONSTANT Programs

VARIABLES
  program,     \* the body, a block
  source       \* the source body: the control of AsyncSource

vars == <<program, source, runVars>>

Source == INSTANCE AsyncSource WITH control <- source

-----------------------------------------------------------------------------
(* Building the machine.                                                   *)

Draft == [states |-> <<>>, identity |-> Entry, steps |-> <<>>, guards |-> <<>>,
          cleanups |-> <<>>, loops |-> <<>>, terminal |-> FALSE, refusal |-> "none"]

Refuse(draft, code) == [draft EXCEPT !.refusal = IF @ = "none" THEN code ELSE @]

Emit(draft, step) == [draft EXCEPT !.steps = Append(@, step)]

End(draft) == [draft EXCEPT !.terminal = TRUE]

CloseState(draft) ==
  [draft EXCEPT !.states =
     Append(@, [identity |-> draft.identity, steps |-> draft.steps,
                guard |-> IF draft.guards = <<>> THEN NoGuard ELSE Last(draft.guards)])]

OpenState(draft, identity) ==
  [draft EXCEPT !.identity = identity, !.steps = <<>>, !.terminal = FALSE]

GotoStep(path, target) == [kind |-> "goto", path |-> path, target |-> target]

\* Continue at a target, unless control has already left.
Fall(draft, path, target) ==
  IF draft.terminal THEN draft ELSE Emit(draft, GotoStep(path, target))

Branch(path, whenTrue, whenFalse) ==
  [kind |-> "branch", path |-> path, whenTrue |-> whenTrue, whenFalse |-> whenFalse]

Execute(draft, path) == Emit(draft, [kind |-> "execute", path |-> path])

Discard == [kind |-> "discard"]
Resolve == [kind |-> "resolve"]
Rebind(region) == [kind |-> "rebind", carrier |-> region]

\* A wait ends its state unless it settles the task.
Suspend(draft, path, fulfillment, resume) ==
  LET suspended == Emit(draft, [kind |-> "suspend", path |-> path,
                                fulfillment |-> fulfillment, resume |-> resume])
  IN  IF resume = NoState THEN End(suspended) ELSE OpenState(CloseState(suspended), resume)

RECURSIVE Suspends(_)
Suspends(statement) ==
  \/ statement.kind \in {"await", "returnAwait"}
  \/ \E i \in DOMAIN statement.parts : Suspends(statement.parts[i])

\* The code walks a finalizer without the waits of the function, which is the same
\* for one that has none.
RECURSIVE CleanupsNeverSuspend(_)
CleanupsNeverSuspend(statement) ==
  /\ statement.kind = "try" => ~Suspends(statement.parts[Finalizer])
  /\ \A i \in DOMAIN statement.parts : CleanupsNeverSuspend(statement.parts[i])

ASSUME ProgramsAssumption == \A body \in Programs : CleanupsNeverSuspend(body)

\* Mutant: a labelled jump has an owner, and goes to the innermost loop.
JumpInnermost(draft, statement, path) ==
  LET owners == SelectSeq(draft.loops, LAMBDA l : statement.label \in {NoLabel, l.label})
      loop == Last(draft.loops)
  IN  CASE owners = <<>> -> Refuse(draft, "escaping-control-flow")
        [] statement.kind = "break" /\ loop.kind = "do" -> Refuse(draft, "no-join-in-scope")
        [] statement.kind = "break" ->
             End(Emit(draft, GotoStep(path, loop.breakTarget)))
        [] OTHER -> End(Emit(draft, GotoStep(path, loop.continueTarget)))

\* A jump goes to the innermost loop, or to the loop with its label.  The
\* Haxe rendering has the join of a do in scope only behind its test.
Jump(draft, statement, path) ==
  LET owners == SelectSeq(draft.loops, LAMBDA l : statement.label \in {NoLabel, l.label})
      loop == Last(owners)
  IN  CASE owners = <<>> -> Refuse(draft, "escaping-control-flow")
        [] statement.kind = "break" /\ loop.kind = "do" -> Refuse(draft, "no-join-in-scope")
        [] statement.kind = "break" ->
             End(Emit(draft, GotoStep(path, loop.breakTarget)))
        [] OTHER -> End(Emit(draft, GotoStep(path, loop.continueTarget)))

\* A statement that leaves without suspending.  A return under a finally
\* carries its value to the innermost cleanup.
Leave(draft, statement, path) ==
  LET region == Last(draft.cleanups)
  IN  CASE statement.kind = "return" /\ draft.cleanups # <<>> ->
             End(Emit(Emit(draft, [kind |-> "carry", path |-> path, carrier |-> region]),
                      GotoStep(path, WhenFalse(region))))
        [] statement.kind = "return" -> End(Emit(draft, [kind |-> "resolve", path |-> path]))
        [] statement.kind = "throw" -> End(Emit(draft, [kind |-> "reject", path |-> path]))
        [] OTHER -> Jump(draft, statement, path)

Leaving == {"return", "throw", "break", "continue"}

RECURSIVE BuildList(_, _, _, _), BuildArm(_, _, _), BuildStructured(_, _, _)

\* The statements of a list from one index on.
BuildList(draft, statements, path, index) ==
  LET statement == statements[index]
      here == Append(path, index)
      built == CASE statement.kind \in Leaving -> Leave(draft, statement, here)
                 [] ~Suspends(statement) /\ Opaque(statement) -> Execute(draft, here)
                 [] OTHER -> BuildStructured(draft, statement, here)
  IN  CASE draft.refusal # "none" \/ index > Len(statements) -> draft
        [] draft.terminal -> Refuse(draft, "unreachable-statement")
        [] OTHER -> BuildList(built, statements, path, index + 1)

\* The body of a branch, a loop or a clause.
BuildArm(draft, statement, path) ==
  CASE draft.refusal # "none" -> draft
    [] statement.kind = "block" /\ statement.label = NoLabel ->
         BuildList(draft, statement.parts, path, 1)
    [] Suspends(statement) \/ statement.kind = "if" ->
         BuildStructured(draft, statement, path)
    [] statement.kind \in Leaving -> Leave(draft, statement, path)
    [] Opaque(statement) -> Execute(draft, path)
    [] OTHER -> Refuse(draft, "unsupported-control-flow")

\* A state that holds an arm, and its end: control falls to a target.
OpenArm(draft, identity, statement, path) ==
  BuildArm(OpenState(draft, identity), statement, path)

CloseArm(draft, path, target) == CloseState(Fall(draft, path, target))

\* Behind an if with two arms that leave there is nothing to continue.
JoinArms(consequent, alternative, path) ==
  [OpenState(alternative, Join(path)) EXCEPT !.terminal = consequent.terminal /\ alternative.terminal]

BuildElse(consequent, statement, path) ==
  IF Len(statement.parts) = 1 THEN OpenState(consequent, Join(path))
  ELSE JoinArms(consequent,
                CloseArm(OpenArm(consequent, WhenFalse(path), statement.parts[2], Append(path, 2)),
                         Append(path, 2), Join(path)),
                path)

BuildIf(draft, statement, path) ==
  LET otherwise == IF Len(statement.parts) = 2 THEN WhenFalse(path) ELSE Join(path)
      tested == CloseState(Emit(draft, Branch(path, WhenTrue(path), otherwise)))
      consequent == OpenArm(tested, WhenTrue(path), statement.parts[1], Append(path, 1))
  IN  BuildElse(CloseArm(consequent, Append(path, 1), Join(path)), statement, path)

\* A while tests in its header; the header of a do is its body, and the
\* test is its tail.
LoopTest(statement, path) ==
  Branch(path, IF statement.kind = "do" THEN Header(path) ELSE WhenTrue(path), Join(path))

OpenLoop(header, statement, path) ==
  IF statement.kind = "do" THEN header ELSE CloseState(Emit(header, LoopTest(statement, path)))

CloseLoop(body, statement, path) ==
  CASE body.terminal -> body
    [] statement.kind = "do" -> Emit(body, LoopTest(statement, path))
    [] OTHER -> Emit(body, GotoStep(Append(path, 1), Header(path)))

BuildLoop(draft, statement, path) ==
  LET loop == [label |-> statement.label, kind |-> statement.kind,
               breakTarget |-> Join(path), continueTarget |-> Header(path)]
      opened == CloseState(Emit(draft, [kind |-> "loop", path |-> path, target |-> Header(path)]))
      entered == [OpenLoop(OpenState(opened, Header(path)), statement, path)
                    EXCEPT !.loops = Append(@, loop)]
      start == IF statement.kind = "do" THEN Header(path) ELSE WhenTrue(path)
      body == OpenArm(entered, start, statement.parts[1], Append(path, 1))
  IN  OpenState(CloseState([CloseLoop(body, statement, path) EXCEPT !.loops = draft.loops]),
                Join(path))

InnerKey(path) == Append(path, TryBody)

\* A region guarded by one clause of a try.
OpenGuard(draft, key, cleanup) ==
  LET guarding == Emit(draft, [kind |-> "guard", path |-> key, cleanup |-> cleanup])
  IN  [CloseState(guarding)
         EXCEPT !.guards = Append(@, Guard(key, cleanup)),
                !.cleanups = IF cleanup THEN Append(@, key) ELSE @]

CloseGuard(draft, body) ==
  [CloseState(body) EXCEPT !.guards = draft.guards, !.cleanups = draft.cleanups]

\* The cleanup of the normal route settles if every way through the body
\* left a value in the carrier, and goes on behind the try otherwise.
CloseCleanup(normal, settles, key, path) ==
  IF normal.terminal THEN Refuse(normal, "unsupported-control-flow")
  ELSE CloseState(Emit(normal, IF settles
                                 THEN [kind |-> "resolveCarried", path |-> path, carrier |-> key]
                                 ELSE GotoStep(path, Join(key))))

\* A finally region: the body, the cleanup of the normal route, and the same
\* finalizer once more as the handler of the rejection route.
BuildCleanups(body, region, finalizer, key, path) ==
  LET normal == OpenArm(region, WhenFalse(key), finalizer, path)
      cleaned == CloseCleanup(normal, body.terminal, key, path)
  IN  OpenState(CloseState(OpenArm(cleaned, CatchState(key), finalizer, path)), Join(key))

BuildFinally(draft, body, statement, path) ==
  IF HasFinalizer(statement)
    THEN BuildCleanups(body,
                       CloseGuard(draft, Fall(body, Append(path, TryBody), WhenFalse(path))),
                       statement.parts[Finalizer], path, Append(path, Finalizer))
    ELSE body

\* A catch region, keyed on a path, and its handler.
BuildCatch(draft, statement, path, key) ==
  LET body == OpenArm(OpenGuard(draft, key, FALSE), WhenTrue(key),
                      statement.parts[TryBody], Append(path, TryBody))
      region == CloseGuard(draft, Fall(body, Append(path, TryBody), Join(key)))
      handled == OpenArm(region, CatchState(key), statement.parts[Handler], Append(path, Handler))
  IN  OpenState(CloseArm(handled, Append(path, Handler), Join(key)), Join(key))

\* A try with both clauses is a finally region around a catch region, which
\* is keyed on the path of the body.
BuildTry(draft, statement, path) ==
  LET guarded == OpenGuard(draft, path, TRUE)
      cleaned == HasFinalizer(statement)
      body == CASE HasHandler(statement) ->
                     BuildCatch(IF cleaned THEN OpenState(guarded, WhenTrue(path)) ELSE draft,
                                statement, path, IF cleaned THEN InnerKey(path) ELSE path)
                [] ~HasHandler(statement) /\ cleaned ->
                     OpenArm(guarded, WhenTrue(path), statement.parts[TryBody], Append(path, TryBody))
                [] OTHER -> Refuse(draft, "unsupported-control-flow")
  IN  BuildFinally(draft, body, statement, path)

\* The value of a returned wait is carried like any other.
BuildReturnAwait(draft, path) ==
  LET region == Last(draft.cleanups)
  IN  IF draft.cleanups = <<>> THEN Suspend(draft, path, Resolve, NoState)
      ELSE End(Emit(Suspend(draft, path, Rebind(region), Resume(path)),
                    GotoStep(path, WhenFalse(region))))

BuildStructured(draft, statement, path) ==
  CASE statement.kind = "block" /\ statement.label # NoLabel ->
         Refuse(draft, "unsupported-control-flow")
    [] statement.kind = "block" -> BuildList(draft, statement.parts, path, 1)
    [] statement.kind = "if" -> BuildIf(draft, statement, path)
    [] statement.kind = "try" -> BuildTry(draft, statement, path)
    [] statement.kind \in Loops -> BuildLoop(draft, statement, path)
    [] statement.kind = "returnAwait" -> BuildReturnAwait(draft, path)
    [] OTHER -> Suspend(draft, path, Discard, Resume(path))

\* The list of the body, and an implicit settlement at its end.
CloseBody(built) ==
  CloseState(IF built.terminal THEN built ELSE Emit(built, [kind |-> "resolveEnd", path |-> <<>>]))

Build(body) == CloseBody(BuildList(Draft, body.parts, <<>>, 1))

\* A body that is refused has no machine.
BuiltMachines ==
  {built.states : built \in {draft \in {Build(body) : body \in Programs} : draft.refusal = "none"}}

\* The machines that run are the ones that are built.
ASSUME MachinesAreBuilt == Machines = BuiltMachines

-----------------------------------------------------------------------------
(* Running the machine beside the source body.                             *)

Init ==
  /\ program \in Programs
  /\ \E built \in {Build(program)} : built.refusal = "none" /\ machine = built.states
  /\ Begin
  /\ source = Enter(program)

\* The source takes the step the machine takes, if it is the source's next.
SourceTakes(kind, path, outcome) ==
  /\ source' = IF source.kind = kind /\ source.path = path
                 THEN After(program, source, outcome)
                 ELSE [source EXCEPT !.kind = "diverged"]
  /\ UNCHANGED program

SourceStays == UNCHANGED <<program, source>>

Evaluates(outcome) == SourceTakes("evaluate", CurrentStep.path, outcome)

\* The statement of an execute step.
Fragment == StatementAt(program, CurrentStep.path)

EvaluateFragment(outcome) ==
  /\ Runs("execute") /\ running.kind = "evaluate"
  /\ outcome \in Outcomes(Fragment, running)
  /\ RunSource(After(Fragment, running, outcome))
  /\ SourceTakes("evaluate", CurrentStep.path \o running.path, outcome)

EvaluateValue(outcome) ==
  /\ CarryValue(outcome) \/ ResolveValue(outcome) \/ AwaitOperand(outcome)
  /\ Evaluates(outcome)

SettleTask ==
  /\ settlement # NoCompletion /\ source.kind \notin {"settled", "diverged"}
  /\ source' = IF source.kind = "settle" /\ source.completion = settlement
                 THEN Settled(source)
                 ELSE [source EXCEPT !.kind = "diverged"]
  /\ UNCHANGED <<program, runVars>>

Done == source.kind \in {"settled", "diverged"}

\* Every step of the machine is one of AsyncRun, and what the source does.
Run ==
  \/ BeginSource(Enter(Fragment)) /\ SourceStays
  \/ \E outcome \in {"value", "true", "false", "throw"} : EvaluateFragment(outcome)
  \/ EndSource /\ SourceStays
  \/ \E outcome \in {"true", "false", "throw"} : TestCondition(outcome) /\ Evaluates(outcome)
  \/ \E outcome \in {"value", "throw"} : EvaluateValue(outcome)
  \/ \E outcome \in {"fulfilled", "throw"} :
       AwaitSettles(outcome) /\ SourceTakes("await", CurrentStep.path, outcome)
  \/ RejectValue /\ Evaluates("throw")
  \/ ResolveEnd /\ SourceStays
  \/ ResolveCarried /\ SourceStays
  \/ ContinueState /\ SourceStays
  \/ OpenRegion /\ SourceStays
  \/ Rethrow /\ SourceStays
  \/ SettleTask

Next == \/ ~Done /\ Run
        \/ Done /\ UNCHANGED vars

Spec == Init /\ [][Next]_vars /\ WF_vars(Next)

-----------------------------------------------------------------------------
(* Properties.                                                             *)

\* Every prefix of a path that stands inside one clause of a try.
ClausesAround(path, part) ==
  {i \in DOMAIN path : /\ path[i] = part
                       /\ StatementAt(program, SubSeq(path, 1, i - 1)).kind = "try"}

\* The machine built and emitted for a body behaves as the body: every
\* evaluation, wait and settlement it makes is the one the source makes
\* next, and it never stops short.
ImplementsSource == Source!Behaves

(* What the comments and the review of the state machine promise, each     *)
(* stated as: the machine does not pass over this when it is due.          *)

Diverged == source.kind = "diverged"
Unsettled == source.completion = NoCompletion

\* The test of a do stands at the tail of its header: whenever the source
\* tests a do, the machine does so too, and does not start the body again.
DoTestsEveryIteration ==
  Diverged /\ Unsettled => StatementAt(program, source.path).kind # "do"

\* The cleanup owes every route out of the handled region: whenever the
\* source evaluates something in a finalizer, the machine does so too.
CleanupRunsOnEveryRoute ==
  Diverged /\ Unsettled => ClausesAround(source.path, Finalizer) = {}

\* A cleanup that ran on a rejection lets the same rejection continue, and the
\* cleanup of a region owes every route out of it: the task is not rejected while
\* the source still evaluates something in a finalizer or a handler around.
RejectionLeavesLast ==
  Diverged /\ Unsettled /\ settlement.kind = "throw" =>
    ClausesAround(source.path, Finalizer) = {} /\ ClausesAround(source.path, Handler) = {}

\* A state's throws belong to the source handler of its guard: whenever the
\* source evaluates something in a handler, the machine does so too.
ThrowReachesHandler ==
  Diverged /\ Unsettled => ClausesAround(source.path, Handler) = {}

\* The cleanup performs the settlement of a return that waits for it:
\* whenever the source settles with a returned value, the machine does so.
ReturnSurvivesCleanup ==
  Diverged => source.completion.kind # "return"

\* A cleanup does not consume the rejection it runs on: whenever the source
\* settles with a thrown value, the machine rejects with it.
RejectionSurvivesCleanup ==
  Diverged => source.completion.kind # "throw"

=============================================================================
