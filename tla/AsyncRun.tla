------------------------------ MODULE AsyncRun ------------------------------
(***************************************************************************)
(* How the state machine of an async function runs in the form the Haxe    *)
(* backend gives it (haxeTaskEmission.ts): every state is a function whose *)
(* steps run in order under a catch that takes its guard's route, and the  *)
(* continuation of an await is the function of its resume state.           *)
(*                                                                         *)
(* A machine is the sequence of the states that compilerAsyncStateMachine  *)
(* built; which machines there are is a constant here, and all that is     *)
(* asked of them are the conditions of WellFormed, each of which concerns  *)
(* one state and the states its steps name.  What happens inside one       *)
(* execute step is a parameter of the actions: AsyncStateMachine gives it  *)
(* the statement that stands there.                                        *)
(***************************************************************************)
EXTENDS Controls, Naturals, Sequences, SequencesExt

CONSTANT Machines

VARIABLES
  machine,     \* the states
  at,          \* the identity of the state being run
  next,        \* the step of it that is next
  running,     \* the source fragment that step is evaluating, or idle
  carried,     \* the carrier of every region opened, by its path
  rejection,   \* the rejection the latest handler was called with
  settlement   \* what the task was told to settle with

runVars == <<machine, at, next, running, carried, rejection, settlement>>

-----------------------------------------------------------------------------
(* Machines.                                                               *)

Identity(kind, path) == [kind |-> kind, path |-> path]

Entry == Identity("entry", <<>>)
WhenTrue(path) == Identity("whenTrue", path)
WhenFalse(path) == Identity("whenFalse", path)
Join(path) == Identity("join", path)
Header(path) == Identity("header", path)
CatchState(path) == Identity("catch", path)
Resume(path) == Identity("resume", path)
NoState == Identity("none", <<>>)

Guard(path, rethrow) == [catch |-> CatchState(path), rethrow |-> rethrow]
NoGuard == [catch |-> NoState, rethrow |-> FALSE]

Identities(states) == {states[i].identity : i \in DOMAIN states}

\* A state is found by the first one with its identity.
StateOf(states, identity) ==
  states[Min({i \in DOMAIN states : states[i].identity = identity})]

\* What the guard of a handler's region says of it.
Rethrows(states, handler) ==
  states[Min({i \in DOMAIN states : states[i].guard.catch = handler})].guard.rethrow

-----------------------------------------------------------------------------
(* The conditions on a machine.                                            *)

\* A step that lets the next step of its state follow, and one that ends it.
Passing == {"execute", "carry"}
Ending == {"branch", "resolve", "reject", "resolveEnd", "resolveCarried", "suspend",
           "goto", "loop", "guard"}

\* The states a step names as the next to run.
Targets(step) ==
  CASE step.kind = "branch" -> {step.whenTrue, step.whenFalse}
    [] step.kind \in {"goto", "loop"} -> {step.target}
    [] step.kind = "guard" -> {WhenTrue(step.path)}
    [] step.kind = "suspend" /\ step.fulfillment.kind # "resolve" -> {step.resume}
    [] OTHER -> {}

\* The carrier a step declares, the one it leaves a value in where it passes
\* or ends, and those it needs.
Declares(step) == IF step.kind = "guard" /\ step.cleanup THEN {step.path} ELSE {}

Rebinds(step) ==
  IF step.kind = "suspend" /\ step.fulfillment.kind = "rebind"
    THEN {step.fulfillment.carrier} ELSE {}

Needs(step) ==
  IF step.kind \in {"carry", "resolveCarried"} THEN {step.carrier} ELSE Rebinds(step)

CarriedBefore(state, index) ==
  {state.steps[j].carrier : j \in {j \in 1 .. index - 1 : state.steps[j].kind = "carry"}}

StepsOf(states) == UNION {Range(states[i].steps) : i \in DOMAIN states}

\* The regions a state stands in, and those whose carrier holds a value
\* wherever it is entered: a region whose cleanup settles with it, at that
\* cleanup, and the region of a returned wait, where it resumes.
Declared(states, identity) ==
  {region \in UNION {Declares(step) : step \in StepsOf(states)} : IsPrefix(region, identity.path)}

Bound(states, identity) ==
  {step.carrier : step \in {step \in StepsOf(states) :
                              /\ step.kind = "resolveCarried"
                              /\ identity = WhenFalse(step.carrier)}}
    \cup UNION {Rebinds(step) : step \in {step \in StepsOf(states) : identity \in Targets(step)}}

\* A state ends in a step that names what is next, unless it is a cleanup
\* that runs on a rejection.
Continues(states, state) ==
  IF state.steps # <<>> /\ state.steps[Len(state.steps)].kind \in Ending THEN TRUE
  ELSE state.identity.kind = "catch" /\ Rethrows(states, state.identity)

Enterable(states, identity) ==
  identity \in Identities(states) /\ Continues(states, StateOf(states, identity))

WellFormedStep(states, state, index) ==
  LET step == state.steps[index]
      before == CarriedBefore(state, index)
  IN  /\ step.kind \in Passing \cup Ending
      /\ step.kind = "suspend" => step.fulfillment.kind \in {"discard", "rebind", "resolve"}
      /\ Needs(step) \subseteq Declared(states, state.identity)
      /\ step.kind = "resolveCarried" => step.carrier \in Bound(states, state.identity) \cup before
      /\ \A target \in Targets(step) :
           /\ Enterable(states, target) /\ target.kind # "catch"
           /\ Declared(states, target) \subseteq Declared(states, state.identity) \cup Declares(step)
           /\ Bound(states, target) \subseteq
                (Bound(states, state.identity) \cup before \cup Rebinds(step)) \ Declares(step)

WellFormedGuard(states, state) ==
  state.guard # NoGuard =>
    /\ Enterable(states, state.guard.catch)
    /\ Declared(states, state.guard.catch) \subseteq Declared(states, state.identity)
    /\ Bound(states, state.guard.catch) \subseteq Bound(states, state.identity)

WellFormed(states) ==
  /\ Enterable(states, Entry)
  /\ Declared(states, Entry) = {} /\ Bound(states, Entry) = {}
  /\ \A i \in DOMAIN states :
       /\ WellFormedGuard(states, states[i])
       /\ \A k \in DOMAIN states[i].steps : WellFormedStep(states, states[i], k)

\* The machines are sequences of states, and every one is well-formed.
ASSUME MachinesAssumption ==
  \A states \in Machines :
    /\ DOMAIN states = 1 .. Len(states)
    /\ \A i \in DOMAIN states : DOMAIN states[i].steps = 1 .. Len(states[i].steps)
    /\ WellFormed(states)

-----------------------------------------------------------------------------
(* Running a machine.                                                      *)

State == StateOf(machine, at)
HasStep == next <= Len(State.steps)
CurrentStep == State.steps[next]
Runs(kind) == settlement = NoCompletion /\ HasStep /\ CurrentStep.kind = kind

Begin ==
  /\ at = Entry
  /\ next = 1
  /\ running = Idle
  /\ carried = <<>>
  /\ rejection = NoCompletion
  /\ settlement = NoCompletion

RunInit == machine \in Machines /\ Begin

GoTo(target) == at' = target /\ next' = 1

\* Mutant: a step is skipped.
AdvanceTwice == next' = next + 2 /\ UNCHANGED at

Advance == next' = next + 1 /\ UNCHANGED at

SettleWith(completion) == settlement' = completion /\ UNCHANGED <<at, next, rejection>>

\* A throw, or the rejection of an awaited task, enters the handler of the
\* state's guard; without one it rejects the task.
Route(thrown) ==
  IF State.guard = NoGuard
    THEN SettleWith(thrown)
    ELSE GoTo(State.guard.catch) /\ rejection' = thrown /\ UNCHANGED settlement

Proceed == UNCHANGED <<rejection, settlement>>

Carry(region, completion) ==
  carried' = [r \in DOMAIN carried \cup {region} |->
                IF r = region THEN completion ELSE carried[r]]

\* Control in the statement of an execute step.  It is left by its end or by
\* a throw: a fragment that returned would leave the function and settle
\* nothing.
InFragment(control) ==
  \/ control.kind = "evaluate"
  \/ control.kind = "settle" /\ control.completion.kind \in {"normal", "throw"}

BeginSource(control) ==
  /\ Runs("execute") /\ running = Idle
  /\ InFragment(control) /\ running' = control
  /\ UNCHANGED <<machine, at, next, carried, rejection, settlement>>

RunSource(control) ==
  /\ Runs("execute") /\ running.kind = "evaluate"
  /\ InFragment(control) /\ running' = control
  /\ UNCHANGED <<machine, at, next, carried, rejection, settlement>>

EndSource ==
  /\ Runs("execute") /\ running.kind = "settle"
  /\ \/ running.completion.kind = "normal" /\ Advance /\ Proceed
     \/ /\ running.completion.kind = "throw"
        /\ Route(Throws(CurrentStep.path \o running.completion.from))
  /\ running' = Idle
  /\ UNCHANGED <<machine, carried>>

TestCondition(outcome) ==
  /\ Runs("branch")
  /\ \/ outcome = "true" /\ GoTo(CurrentStep.whenTrue) /\ Proceed
     \/ outcome = "false" /\ GoTo(CurrentStep.whenFalse) /\ Proceed
     \/ outcome = "throw" /\ Route(Throws(CurrentStep.path))
  /\ UNCHANGED <<machine, running, carried>>

CarryValue(outcome) ==
  /\ Runs("carry")
  /\ \/ /\ outcome = "value" /\ Advance /\ Proceed
        /\ Carry(CurrentStep.carrier, Returns(CurrentStep.path))
     \/ outcome = "throw" /\ Route(Throws(CurrentStep.path)) /\ UNCHANGED carried
  /\ UNCHANGED <<machine, running>>

ResolveValue(outcome) ==
  /\ Runs("resolve")
  /\ \/ outcome = "value" /\ SettleWith(Returns(CurrentStep.path))
     \/ outcome = "throw" /\ Route(Throws(CurrentStep.path))
  /\ UNCHANGED <<machine, running, carried>>

\* A thrown value rejects the task, unless evaluating it throws.
RejectValue ==
  /\ Runs("reject")
  /\ \/ SettleWith(Throws(CurrentStep.path))
     \/ Route(Throws(CurrentStep.path))
  /\ UNCHANGED <<machine, running, carried>>

ResolveEnd ==
  /\ Runs("resolveEnd")
  /\ SettleWith(Falls)
  /\ UNCHANGED <<machine, running, carried>>

ResolveCarried ==
  /\ Runs("resolveCarried")
  /\ SettleWith(carried[CurrentStep.carrier])
  /\ UNCHANGED <<machine, running, carried>>

AwaitOperand(outcome) ==
  /\ Runs("suspend") /\ running = Idle
  /\ \/ /\ outcome = "value"
        /\ running' = [running EXCEPT !.kind = "await"]
        /\ UNCHANGED <<at, next>> /\ Proceed
     \/ outcome = "throw" /\ Route(Throws(CurrentStep.path)) /\ UNCHANGED running
  /\ UNCHANGED <<machine, carried>>

Fulfill ==
  LET fulfillment == CurrentStep.fulfillment
      value == Returns(CurrentStep.path)
  IN  \/ fulfillment.kind = "discard" /\ GoTo(CurrentStep.resume) /\ Proceed /\ UNCHANGED carried
      \/ /\ fulfillment.kind = "rebind" /\ GoTo(CurrentStep.resume) /\ Proceed
         /\ Carry(fulfillment.carrier, value)
      \/ fulfillment.kind = "resolve" /\ SettleWith(value) /\ UNCHANGED carried

AwaitSettles(outcome) ==
  /\ Runs("suspend") /\ running.kind = "await"
  /\ \/ outcome = "fulfilled" /\ Fulfill
     \/ outcome = "throw" /\ Route(Throws(CurrentStep.path)) /\ UNCHANGED carried
  /\ running' = Idle
  /\ UNCHANGED machine

ContinueState ==
  /\ Runs("goto") \/ Runs("loop")
  /\ GoTo(CurrentStep.target) /\ Proceed
  /\ UNCHANGED <<machine, running, carried>>

\* A finally region declares its carrier where it opens.
OpenRegion ==
  /\ Runs("guard")
  /\ GoTo(WhenTrue(CurrentStep.path)) /\ Proceed
  /\ IF CurrentStep.cleanup THEN Carry(CurrentStep.path, Falls) ELSE UNCHANGED carried
  /\ UNCHANGED <<machine, running>>

\* A handler that ran to its end as a cleanup rejects once more.
Rethrow ==
  /\ settlement = NoCompletion /\ ~HasStep
  /\ at.kind = "catch" /\ Rethrows(machine, at)
  /\ SettleWith(rejection)
  /\ UNCHANGED <<machine, running, carried>>

RunNext ==
  \/ \E control : BeginSource(control) \/ RunSource(control)
  \/ EndSource
  \/ \E outcome \in {"true", "false", "throw"} : TestCondition(outcome)
  \/ \E outcome \in {"value", "throw"} :
       CarryValue(outcome) \/ ResolveValue(outcome) \/ AwaitOperand(outcome)
  \/ \E outcome \in {"fulfilled", "throw"} : AwaitSettles(outcome)
  \/ RejectValue
  \/ ResolveEnd
  \/ ResolveCarried
  \/ ContinueState
  \/ OpenRegion
  \/ Rethrow

RunSpec == RunInit /\ [][RunNext]_runVars

-----------------------------------------------------------------------------
(* Properties.                                                             *)

\* The types of the run: the machine stands at a step of a state or behind
\* the last one, a carrier holds nothing or a returned value, and a handler
\* is only ever called with a rejection.
TypeOK ==
  /\ at \in Identities(machine)
  /\ next \in 1 .. Len(State.steps) + 1
  /\ running.kind \in {"idle", "evaluate", "await", "settle"}
  /\ \A region \in DOMAIN carried : carried[region].kind \in {"normal", "return"}
  /\ rejection.kind \in {"none", "throw"}
  /\ settlement.kind \in {"none", "normal", "return", "throw"}

\* The function of a state never returns before the task is settled or
\* another state is sure to be called: it stands at a step it can take, with
\* nothing else half done, or is a cleanup about to reject once more.
NeverStops ==
  settlement = NoCompletion =>
    \/ /\ HasStep
       /\ CurrentStep.kind \in Passing \cup Ending
       /\ \/ running = Idle
          \/ CurrentStep.kind = "execute" /\ InFragment(running)
          \/ CurrentStep.kind = "suspend" /\ running.kind = "await"
    \/ ~HasStep /\ running = Idle /\ at.kind = "catch" /\ Rethrows(machine, at)

\* The carrier a step reads or binds is in scope there: the region that
\* declares it has been opened on every way to the step.
CarriersAreDeclared ==
  settlement = NoCompletion /\ HasStep => Needs(CurrentStep) \subseteq DOMAIN carried

\* A cleanup that settles the task finds a returned value in the carrier,
\* whichever route has led to it.
CleanupsSettleReturns ==
  Runs("resolveCarried") => carried[CurrentStep.carrier].kind = "return"

\* A handler always has the rejection it was called with.
HandlersHaveRejections == at.kind = "catch" => rejection.kind = "throw"

\* The task settles for a reason: with nothing only at the end of the body,
\* with a value only at a return, and with an error only where no handler is
\* in force, at a throw statement, or behind a cleanup, which passes on the
\* rejection it was called with.
SettlesForAReason ==
  [][settlement' # settlement =>
       CASE settlement'.kind = "normal" -> Runs("resolveEnd")
         [] settlement'.kind = "return" ->
              Runs("resolve") \/ Runs("resolveCarried") \/ Runs("suspend")
         [] settlement'.kind = "throw" ->
              \/ State.guard = NoGuard \/ Runs("reject")
              \/ at.kind = "catch" /\ settlement' = rejection
         [] OTHER -> FALSE]_runVars

=============================================================================
