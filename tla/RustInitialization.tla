------------------------- MODULE RustInitialization -------------------------
\* The initialization of a Rust package: the decision whether a package gets
\* lifecycle hooks at all (rustModuleEvaluationRepresentationFinalization.ts,
\* rustModuleEvaluationRepresentationPlan.ts, rustModuleEvaluationExecutionPlan.ts),
\* what the public binding plan then says of each name (rustPublicBindingPlan.ts),
\* and the run of the hooks that rustModuleEvaluationEmissionPlan.ts emits, under
\* a host that calls them from several threads.
\*
\* The groups of the neutral plan are laid end to end in "order": a group's hook
\* calls the hooks of its modules in their order and stops at the first error, and
\* so does the host with the groups' hooks, which makes a call's place in the
\* schedule all there is to know of where a bootstrap is.
EXTENDS Sequences, Naturals, FiniteSets

CONSTANTS Modules, Packages,
          Threads,       \* the threads of the host that run the bootstrap
          Finalizations, \* what the orchestration may hand to the backend
          Errors, NoError,
          Reentrancy,    \* the error of module_evaluation_reentrancy_error()
          Fallible,      \* the calls whose work may fail
          MaxBootstraps  \* bound: how often one thread runs the bootstrap

BindingKinds == {"primitive-constant", "private-scalar-state", "function-item",
                 "carrier", "temporal-carrier"}

Phases == {"instantiate", "evaluate"}

Calls == [phase : Phases, module : Modules]

Places(f) == 1 .. Len(f.order)

\* The modules of the plan's groups. The others of the plan are linked for their
\* types only, and nothing evaluates them.
Grouped(f) == {f.order[i] : i \in Places(f)}

ASSUME InitializationAssumption ==
  /\ \A f \in Finalizations :
       /\ f.order \in Seq(Modules)
       /\ f.order # <<>>
       /\ \A i, j \in Places(f) : f.order[i] = f.order[j] => i = j
  /\ NoError \notin Errors
  /\ Reentrancy \notin Errors
  /\ Reentrancy # NoError
  /\ MaxBootstraps \in Nat

ASSUME PackagesAssumption ==
  /\ IsFiniteSet(Packages)
  /\ \A f \in Finalizations :
       f.cycles \subseteq SUBSET Modules /\ f.package \in [Modules -> Packages]

ASSUME CratesAssumption ==
  \A f \in Finalizations : f.crate \in [Packages -> Packages]

-----------------------------------------------------------------------------
\* Planning

\* The modules of the plan: those of the groups, and those linked for their types.
Planned(f) == Grouped(f) \cup f.linked

\* Mutant: the refusals of modules that are not in the plan are not asked for.
IncompleteSubjectsUnrefused(f) == (Planned(f) \ f.kept) \cup f.placeholders

\* The modules without their output, refused or replaced by a placeholder. A
\* refused module is not in the plan, and nothing of it is kept.
IncompleteSubjects(f) ==
  (Planned(f) \ f.kept) \cup f.refused \cup f.placeholders

EntryRefusals(f) ==
  {[code |-> "entry-invocation-unbound", subject |-> {m}] : m \in f.entries}

\* A cycle is initialized by one crate or not at all.
GroupRefusals(f) ==
  {[code |-> "cross-crate-cycle-unrepresented", subject |-> group] :
     group \in {g \in f.cycles : Cardinality({f.package[m] : m \in g}) > 1}}

Erased(kind) == kind \in {"primitive-constant", "private-scalar-state", "function-item"}

\* A binding of the module, or an import whose provider is no immutable constant,
\* that Rust has no carrier for.
BindingRefusals(f) ==
  {[code |-> "binding-carrier-unrepresented", subject |-> {m}] :
     m \in {n \in Planned(f) :
              \/ \E kind \in f.locals[n] : ~Erased(kind)
              \/ \E kind \in f.imports[n] : kind # "primitive-constant"}}

\* A top-level step is erased when it only initializes constants and scalar state;
\* a step that binds nothing is there for its effect.
StepRefusals(f) ==
  {[code |-> "step-unrepresented", subject |-> {m}] :
     m \in {n \in Planned(f) :
              \E step \in f.steps[n] :
                \/ step = {}
                \/ step \ {"primitive-constant", "private-scalar-state"} # {}}}

EligibilityRefusals(f) ==
  EntryRefusals(f) \cup GroupRefusals(f) \cup BindingRefusals(f) \cup StepRefusals(f)

\* The execution plan binds the entries itself, so their refusals are consumed.
ExecutionRefusals(f) ==
  IF IncompleteSubjects(f) # {}
  THEN {[code |-> "output-scope-incomplete", subject |-> IncompleteSubjects(f)]}
  ELSE {r \in EligibilityRefusals(f) : r.code # "entry-invocation-unbound"}

\* The source may not use the names the hooks are given.
ReservedCollision(f) ==
  /\ IncompleteSubjects(f) = {}
  /\ \E m \in f.reserved : f.package[m] \in {f.package[n] : n \in Grouped(f)}

\* Two packages of the source tree may not share a crate: the plan of the tree
\* throws before the output is looked at, and the execution plan asks again.
CrateCollision(f) ==
  \E m, n \in f.kept :
    f.package[m] # f.package[n] /\ f.crate[f.package[m]] = f.crate[f.package[n]]

\* Every module is instantiated before any is evaluated.
Schedule(f) ==
  [i \in 1 .. 2 * Len(f.order) |->
     IF i <= Len(f.order)
     THEN [phase |-> "instantiate", module |-> f.order[i]]
     ELSE [phase |-> "evaluate", module |-> f.order[i - Len(f.order)]]]

-----------------------------------------------------------------------------
\* The run

VARIABLES finalization, \* what the backend's session was finalized with
          session,      \* "open", or how the finalization ended
          lifecycle,    \* the state behind each module's Mutex
          error,        \* the error in the state of an errored module
          host,         \* where each thread is in the bootstrap
          log           \* history: the calls whose work has begun

vars == <<finalization, session, lifecycle, error, host, log>>

LifecycleStates ==
  {"uninstantiated", "instantiating", "instantiated", "evaluating", "evaluated", "errored"}

Working == {"instantiating", "evaluating"}

Running == Working \cup {"instantiate", "evaluate"}

Length == 2 * Len(finalization.order)

Call(t) == Schedule(finalization)[host[t].call]

Init ==
  /\ finalization \in Finalizations
  /\ session = "open"
  /\ lifecycle = [m \in Modules |-> "uninstantiated"]
  /\ error = [m \in Modules |-> NoError]
  /\ host = [t \in Threads |-> [at |-> "idle", call |-> 1, result |-> NoError, runs |-> 0]]
  /\ log = <<>>

\* finalizePackageGraph: the pending plans replace the session's together, or
\* the finalization throws and none does.
Finalize ==
  /\ session = "open"
  /\ session' = IF CrateCollision(finalization) \/ ReservedCollision(finalization) THEN "failed"
                ELSE IF ExecutionRefusals(finalization) = {} THEN "available" ELSE "refused"
  /\ UNCHANGED <<finalization, lifecycle, error, host, log>>

\* What the public bindings say of a name of module m, when its own binding is
\* not refused.
Access(space) ==
  IF space = "type" THEN "immediate"
  ELSE IF session = "available" THEN "after-bootstrap" ELSE "refused"

\* The host begins a bootstrap, or another one: it keeps no account of the last.
Bootstrap(t) ==
  /\ session = "available"
  /\ host[t].at \notin Running
  /\ host[t].runs < MaxBootstraps
  /\ host' = [host EXCEPT ![t] = [at |-> "instantiate", call |-> 1, result |-> NoError,
                                  runs |-> host[t].runs + 1]]
  /\ UNCHANGED <<finalization, session, lifecycle, error, log>>

\* The ? of the hook, of the group's hook and of the host: the bootstrap ends.
Stop(t, result) ==
  /\ host' = [host EXCEPT ![t] = [host[t] EXCEPT !.at = "failed", !.result = result]]
  /\ UNCHANGED <<lifecycle, error, log>>

\* Mutant: the evaluate phase is entered at the first call of the schedule.
AdvancedToFirst(t) ==
  IF host[t].call = Length
  THEN [host EXCEPT ![t].at = "ok"]
  ELSE [host EXCEPT ![t] = [host[t] EXCEPT !.at = "instantiate",
                                     !.call = IF 2 * host[t].call = Length THEN 1 ELSE host[t].call + 1]]

\* Mutant: the last call is left out.
AdvancedToLast(t) ==
  IF host[t].call + 1 = Length
  THEN [host EXCEPT ![t].at = "ok"]
  ELSE [host EXCEPT ![t] = [host[t] EXCEPT !.at = "instantiate", !.call = host[t].call + 1]]

\* Mutant: the schedule is run past its end.
AdvancedPastEnd(t) ==
  IF host[t].call > Length
  THEN [host EXCEPT ![t].at = "ok"]
  ELSE [host EXCEPT ![t] = [host[t] EXCEPT !.at = "instantiate", !.call = host[t].call + 1]]

\* The hook of the call returned Ok(()).
Advanced(t) ==
  IF host[t].call = Length
  THEN [host EXCEPT ![t].at = "ok"]
  ELSE [host EXCEPT ![t] = [host[t] EXCEPT !.at = "instantiate", !.call = host[t].call + 1]]

\* __flight_instantiate_once returned Ok(()): to its group's hook, or to
\* __flight_evaluate_once, which called it first.
Instantiated(t) ==
  IF Call(t).phase = "evaluate"
  THEN [host EXCEPT ![t].at = "evaluate"]
  ELSE Advanced(t)

\* The section under the lock that a phase hook starts with.
Enter(t, phase, cached, ready, transition, returned) ==
  LET m == Call(t).module IN
  /\ host[t].at = phase
  /\ \/ /\ lifecycle[m] \in cached
        /\ host' = returned
        /\ UNCHANGED <<lifecycle, error, log>>
     \/ lifecycle[m] \in Working /\ Stop(t, Reentrancy)
     \/ lifecycle[m] = "errored" /\ Stop(t, error[m])
     \/ /\ lifecycle[m] \in ready
        /\ lifecycle' = [lifecycle EXCEPT ![m] = transition]
        /\ host' = [host EXCEPT ![t].at = transition]
        /\ log' = Append(log, [phase |-> phase, module |-> m])
        /\ error' = error
  /\ UNCHANGED <<finalization, session>>

EnterInstantiate(t) ==
  Enter(t, "instantiate", {"instantiated", "evaluated"}, {"uninstantiated"},
        "instantiating", Instantiated(t))

EnterEvaluate(t) ==
  Enter(t, "evaluate", {"evaluated"}, {"uninstantiated", "instantiated"},
        "evaluating", Advanced(t))

\* Mutant: a module whose work failed may be worked on again.
CompleteForRetry(t, phase, transition, success, returned) ==
  LET m == Call(t).module IN
  /\ host[t].at = transition
  /\ \/ /\ lifecycle' = [lifecycle EXCEPT ![m] = success]
        /\ host' = returned
        /\ UNCHANGED <<error, log>>
     \/ /\ [phase |-> phase, module |-> m] \in Fallible
        /\ \E e \in Errors :
             /\ lifecycle' = [lifecycle EXCEPT ![m] = "uninstantiated"]
             /\ error' = [error EXCEPT ![m] = e]
             /\ host' = [host EXCEPT ![t] = [host[t] EXCEPT !.at = "failed", !.result = e]]
        /\ log' = log
  /\ UNCHANGED <<finalization, session>>

\* Mutant: an error is returned before the module's state is set.
CompleteUnrecorded(t, phase, transition, success, returned) ==
  LET m == Call(t).module IN
  /\ host[t].at = transition
  /\ \/ /\ lifecycle' = [lifecycle EXCEPT ![m] = success]
        /\ host' = returned
        /\ UNCHANGED <<error, log>>
     \/ /\ [phase |-> phase, module |-> m] \in Fallible
        /\ \E e \in Errors : Stop(t, e)
  /\ UNCHANGED <<finalization, session>>

\* The work is done without the lock. Its result is Ok(()) in every hook emitted
\* today; the second section under the lock handles both.
Complete(t, phase, transition, success, returned) ==
  LET m == Call(t).module IN
  /\ host[t].at = transition
  /\ \/ /\ lifecycle' = [lifecycle EXCEPT ![m] = success]
        /\ host' = returned
        /\ UNCHANGED <<error, log>>
     \/ /\ [phase |-> phase, module |-> m] \in Fallible
        /\ \E e \in Errors :
             /\ lifecycle' = [lifecycle EXCEPT ![m] = "errored"]
             /\ error' = [error EXCEPT ![m] = e]
             /\ host' = [host EXCEPT ![t] = [host[t] EXCEPT !.at = "failed", !.result = e]]
        /\ log' = log
  /\ UNCHANGED <<finalization, session>>

CompleteInstantiate(t) ==
  Complete(t, "instantiate", "instantiating", "instantiated", Instantiated(t))

CompleteEvaluate(t) ==
  Complete(t, "evaluate", "evaluating", "evaluated", Advanced(t))

Step(t) ==
  \/ EnterInstantiate(t)
  \/ CompleteInstantiate(t)
  \/ EnterEvaluate(t)
  \/ CompleteEvaluate(t)

Next == Finalize \/ \E t \in Threads : Bootstrap(t) \/ Step(t)

\* A hook never waits: it holds a lock only across a few assignments.
Fairness == \A t \in Threads : WF_vars(Step(t))

Spec == Init /\ [][Next]_vars /\ Fairness

-----------------------------------------------------------------------------
\* Properties

\* The types of the variables.
TypeOK ==
  /\ finalization \in Finalizations
  /\ session \in {"open", "available", "refused", "failed"}
  /\ lifecycle \in [Modules -> LifecycleStates]
  /\ error \in [Modules -> Errors \cup {NoError}]
  /\ host \in [Threads -> [at : Running \cup {"idle", "ok", "failed"},
                           call : 1 .. Length,
                           result : Errors \cup {NoError, Reentrancy},
                           runs : 0 .. MaxBootstraps]]
  /\ log \in Seq(Calls)

Errored == {m \in Modules : lifecycle[m] = "errored"}

Failure == IF Errored = {} THEN NoError ELSE error[CHOOSE m \in Errored : TRUE]

Promise ==
  INSTANCE OrderedInitialization
    WITH Schedules <- {Schedule(f) : f \in Finalizations},
         schedule <- IF session = "available" THEN Schedule(finalization) ELSE <<>>,
         work <- log,
         busy <- \E m \in Modules : lifecycle[m] \in Working,
         failure <- Failure

\* However many threads run the bootstrap, however often: the hooks' work is
\* begun in the order of the schedule, once, one piece at a time, and nothing
\* begins after the first failure.
KeepsThePromise == Promise!Spec

\* A bootstrap that returned Ok(()) left every module evaluated whose values the
\* public bindings then call accessible, and one that returned an error of the
\* modules' work returned the one failure there is.
ReturnsAreTrue ==
  \A t \in Threads :
    /\ host[t].at = "ok" =>
         /\ Access("value") = "after-bootstrap"
         /\ \A m \in Grouped(finalization) : lifecycle[m] = "evaluated"
    /\ host[t].at = "failed" /\ host[t].result # Reentrancy => host[t].result = Failure

\* A package is initialized whole or not at all: when a hook has begun to work, or
\* a binding sends its reader to the bootstrap, every module of the plan kept its
\* output, no module was refused and none is a placeholder, no cycle crosses two
\* packages and every top-level step only leaves constants and scalar state.
InitializedWholeOrNotAtAll ==
  LET f == finalization IN
  log # <<>> \/ Access("value") = "after-bootstrap" =>
    /\ Planned(f) \subseteq f.kept
    /\ f.refused = {} /\ f.placeholders = {}
    /\ \A g \in f.cycles : \A m, n \in g : f.package[m] = f.package[n]
    /\ \A m \in Planned(f) : \A step \in f.steps[m] :
         step # {} /\ step \subseteq {"primitive-constant", "private-scalar-state"}

\* A bootstrap is only rejected for work that another thread is doing at that
\* moment: a hook leaves no module in a transitional state behind it, so a host
\* that runs one bootstrap at a time is never rejected.
RejectedOnlyByAnother ==
  [][\A t \in Threads :
       host[t].at \in Running /\ host'[t].at = "failed" /\ host'[t].result = Reentrancy =>
         \E u \in Threads \ {t} : host[u].at \in Working /\ Call(u).module = Call(t).module]_vars

\* Every bootstrap returns: no hook waits for another.
EveryBootstrapReturns ==
  \A t \in Threads : host[t].at \in Running ~> host[t].at \in {"ok", "failed"}

=============================================================================
