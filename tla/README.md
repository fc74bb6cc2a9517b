# Verification of the Flight compiler

This directory holds TLA+ models of the Flight compiler (`flighthq/flight-compiler`),
the TLC configurations that check them on small instances, and TLAPS proofs of the
properties that hold for instances of every size. The compiler translates TypeScript packages
to Haxe, Rust and C++. Nearly all of it is one synchronous pass of pure functions; what is
hard in it is therefore not concurrency inside the compiler but

- **staged decisions over a graph**: refusals that spread along imports, plans made before
  the refusals they are cut down by, files dropped at three different places;
- **graph algorithms**: a hand-written Tarjan visit, and plans cut out of plans;
- **generated control flow**: the state machine an async function becomes, which *is*
  concurrent with the tasks it awaits, throws anywhere, and owes cleanups on every route;
- **rewriting in passes**: loops, switches and tries rewritten one after the other, each
  pass on what the ones before it left, and all of them owing the source its behaviour;
- **name resolution over cyclic module graphs**: an iteration to a fixed point and a
  recursive search with a cache, written separately and both answering what a name means;
- **emitted hooks**: the initialization of a Rust package, run by a host with several threads;
- **publication**: two GitHub workflows that share one npm package, poll an external
  release, may fail anywhere and may be started twice.

The models are about these seven. Paths below are relative to `src/`.

## Files

| Module | Role |
| --- | --- |
| `PackageGraph` | the package-graph compilation, from lowering outcomes to published files |
| `PackageVerdict` | what such a compilation promises, as an abstract specification |
| `PackageGraphProofs` | 14 theorems about `PackageGraph`, among them that it implements `PackageVerdict` |
| `ModuleEvaluation` | the evaluation plan of a module graph and its projection |
| `ModuleEvaluationProofs` | 13 theorems about `ModuleEvaluation`: the visit finds the components of every graph, in source order outside cycles, and what is projected can be evaluated |
| `ReleaseBridge` | the two release workflows, the version stamp, the publisher, and their environment |
| `ReleaseBridgeProofs` | 7 theorems about `ReleaseBridge` |
| `ModuleExports` | the exports of a module graph, and what the language resolves them to |
| `ExportInventory` | the export lanes of the workspace inventory, pass by pass to a fixed point |
| `ExportTracing` | the tracing of named imports through barrels, with its cache |
| `ExportResolution` | both resolutions over one graph, and what they owe the language |
| `ModuleExportsProofs` | lemmas about what leads where in any finite graph, and which declarations a name stands for |
| `ExportResolutionProofs` | 5 theorems about `ExportInventory`: what is published and when a lane is refused; 3 about `ExportTracing`: every open call, cached answer and link is right |
| `RustInitialization` | the initialization of a Rust package: eligibility, plan, emitted hooks, threads |
| `OrderedInitialization` | what a host is promised about it, as an abstract specification |
| `RustInitializationProofs` | 6 theorems about `RustInitialization`, among them that it keeps the promise |
| `Controls` | completions, and what a body that is being run does next |
| `CompletionAlgebra` | statements of the intermediate representation, and how the completion set of one is made of those of its parts |
| `CompletionSets` | the completion sets themselves, computed over a tree |
| `SourceRules` | how a statement runs: the rules of the language, one by one |
| `SourceSteps` | the same rules, followed from one evaluation to the next |
| `CompletionRun` | a body of any size that runs rule by rule, and the completion set declared for it |
| `CompletionRunProofs` | 2 theorems about `CompletionRun`: completion sets are sound for every body |
| `AsyncSource` | a body running so: the abstract specification of the async machine |
| `AsyncRun` | how any well-formed state machine runs as emitted Haxe |
| `AsyncRunProofs` | 7 theorems about `AsyncRun`: no run stops short, returns reach their cleanup, settlements have a reason |
| `AsyncStateMachine` | the machine built from an async body, and its run beside the source body |
| `LoweringPasses` | the five lowering passes that change control flow, as functions on statements |
| `Lowering` | a plan of passes applied one by one, then the lowered body beside the source body |
| `MC*` | the instances the configurations use: bounds, graphs, statement grammars |

`PROJECT.json` lists, for each definition that models code, the lines it was translated
from; each run; each mutant (an operator next to the original, with a comment that says
what bug it stands for) and the property that catches it; hazards; findings; theorems.

## Inventory

### Package-graph compilation — `packages/compiler-orchestration/src/compilerPackageCompilation.ts`

*State*: one mutable record per module (refusals, emitted files), the candidate evaluation
plan, the emission context, and the files, replacements and placeholders of the result.
*Operations*, in order: lower every module; propagate refusals to importers until a scan
changes nothing; plan module evaluation, refusing each module whose plan throws, and try
again; open the emission context; emit module by module; propagate; refuse output paths
that collide; propagate; project the candidate plan to the survivors; let the backend
finalize the package; in best-effort mode ask for placeholders; check package paths;
publish. *Interactions*: calls semantic lowering, the evaluation planner (`ModuleEvaluation`)
and the backend, all synchronously; each may throw. *Hard*: every pass reads what earlier
passes left and later passes change it again. *Correct when*: the result depends only on
what failed, never on the order of scans; what is published is closed (strict mode) or
accounted for (best effort); the projected plan is the plan of the survivors; a refused
module leaves no file.

### Module evaluation — `packages/compiler-module/src/compilerModuleEvaluation.ts`

*State*: visit indices, low links, component stack, call stack, groups. *Operations*: visit
an entry, follow or revisit a runtime request, return, close a component; assert that every
module is reachable; project a finished plan to a selection. *Hard*: low-link arithmetic,
and a projection that may split a component. *Correct when*: groups are the strongly
connected components of the runtime graph, dependencies first, in source order outside
cycles; a projection is rejected or can be evaluated.

### Async tasks — `packages/compiler-task`, `packages/compiler-completion`, `packages/compiler-backend-hx/src/haxeTask*.ts`

*State*: at build time the states collected so far, the current one, and stacks of guards,
cleanups and loops; at run time the state and step, the carriers of returned values, the
rejection a handler was called with, the settlement. *Operations*: one builder per statement
form; one rendering per step kind. *Interactions*: the emitted function is called by the
task runtime, suspends on awaited tasks and is resumed by their callbacks. *Hard*: throws
and rejections at any evaluation, cleanups on every route, values that wait while a cleanup
runs. *Correct when*: the machine evaluates, waits and settles exactly as the source does.

### Lowering passes — `packages/compiler-lowering`

*State*: the module while a plan of passes runs over it. *Operations*: apply the next pass,
then its verifier, which fails the plan if the construct the pass was elected to remove is
still there. *Interactions*: each backend elects its own passes; the async builder relies on
what they removed. *Hard*: a pass moves jumps into loops and branches that did not stand
around them before, and each sees the output of the one before it. *Correct when*: the lowered
body evaluates, waits and settles as the source does; no pass brings back what an earlier one
removed; a second application changes nothing, as every pass declares.

### Rust initialization — `packages/compiler-backend-rs/src/rustModuleEvaluation*.ts`, `rustPublicBindingPlan.ts`

*State*: while compiling, the pending plan of a session; in the emitted crate, one lifecycle
state per module behind a `Mutex`. *Operations*: collect the refusals, make the execution plan,
finalize the session; in the crate, instantiate and evaluate a module once. *Interactions*: the
orchestration hands over the projected evaluation plan; the host calls the groups' hooks in
order, from any thread, as often as it likes. *Hard*: the work of a hook runs outside its
lock. *Correct when*: work is begun in the order of the schedule and once; the first failure
stays; a bootstrap that returns `Ok(())` left everything evaluated; a package that cannot be
initialized whole has no hooks.

### Export resolution — `packages/compiler-inventory/src/flightWorkspaceInventory.ts`, `compilerPackageCompilation.ts` 967–1157

*State*: the inventory keeps the candidates of every module it has resolved; the package graph
compilation keeps one cache for all imports. *Operations*: open a lane, repeat the pass over its
graph, keep or refuse the result; trace the names of an import to the modules that declare
them, or keep the barrel. *Hard*: cyclic export-stars, names that shadow a star, answers
cached while a cycle was being searched. *Correct when*: both say what the language says,
whatever was asked before.

### Publication — `.github/workflows/flight-release.yml`, `release.yml`, `scripts/toolCompilerPublish.ts`, `scripts/toolCompilerVersionStamp.ts`

*State*: queued and running workflow runs and their steps, the manifest version of each
checkout, what npm has, what Flight has published, whether the token is set. *Operations*:
dispatch or tag; start under a concurrency group; validate, wait for Flight, gate, stamp,
prove the artifact, query npm, upload. *Hard*: two workflows with different checks that
serve one channel; failure after an upload; redelivery. *Correct when*: the bridge publishes
only what Flight published; `latest` never gets a prerelease; only proved artifacts are
uploaded; a repeated run is harmless; every run ends.

### Parts that are not modelled

| Part | Why |
| --- | --- |
| single-module orchestration (`compilerOrchestration.ts`) | a straight line of calls; its outcome is the environment of `PackageGraph` |
| TypeScript semantics (`compiler-semantic`) | a large function of one input without state of its own |
| lowering passes for expressions, bindings and declarations; a plan's order by name | each rewrites one construct in place and moves no control |
| module facades (`compiler-module`) | identity and public names of a facade, a function of one module |
| semantic patches, target-name allocation, structural types | pure functions, planned as operators against reference definitions |
| workspace inventory but for export lanes | manifests, SDK exposures, host facts and import analysis are input and checks on it; which exports are runtime values is the TypeScript checker's answer |
| runtime contract, closure evidence, package check | set comparisons and reports over the results of other components |
| C++, most of the Rust and of the Haxe backend | emit text for one module; `PackageGraph` models what the compilation lets *any* backend do |
| IR traversal and validation, IR types, canonical forms, provenance, ambient surface | exhaustive walks, types and small helpers |
| source emission | layout and headers |
| command line, `tool-compiler` facade, repository gates | argument parsing, file I/O, re-exports, sequential scripts |

Hazards of all parts, with the line where each one bites and the properties that would
catch it, are in `PROJECT.json` under `hazards`.

## How the models correspond to the code

### PackageGraph

| Model | Code (`compilerPackageCompilation.ts`) |
| --- | --- |
| `deps`, `entries`, `selected`, `bestEffort` | the request: link dependencies, entry modules, selection, mode |
| `own[m]` (a set of stages), `m \in inherited` | `record.refusals`; inherited ones have the stage `dependency` |
| `files[m]` | `record.files`, as (slot, path) pairs |
| `candidate`, `context`, `initialization` | candidate plan, emission context, projected plan |
| `Lower` | the outcome of lowering: any set of modules refused (the environment) |
| `PropagateRefusal`, `FinishPropagation` | one step of the scan, and the scan that changes nothing; called from three places, so `resume` holds the return address |
| `RefuseInitialization`, `PlanInitialization` | the planning loop that refuses the module an error names and retries |
| `OpenEmission`, `EmitModule`, `RefuseEmission`, `FinishEmission` | emission |
| `RefuseOutputCollisions` | collision check by case-folded path per package |
| `ProjectInitialization` | the projection of the candidate plan, and its throw |
| `FinalizePackageGraph`, `RejectReplacements`, `EmitPlaceholders`, `Publish`, `BackendThrows` | finalization and assembly |

Paths are model values with a function `Fold` that says which fold together; a module's
output is a list from a small set. The scan order of propagation is left open, which is
more than the code does (it scans a sorted list) and shows that the order is irrelevant.
`PackageVerdict` says what the result is from the own-refused modules, the graph and the
mode alone; `ImplementsVerdict` maps a compilation to it.

### ModuleEvaluation

The recursion of `visit` is unrolled into explicit `frames` (a module and the place of its next runtime request), so
one action is one step of the code: `VisitEntry`, `VisitDependency`, `RevisitDependency`
(on the stack: lower the link; else nothing), `Return`, `CloseGroup`, `LeaveOnStack`,
`AssertReachability`, `PlanModules`. `Project` is the projection, which the code runs
without interruption, as one action over every selection; the entries and groups it filters are
`Selected`, the elements at the kept places in their order. Faults are the top-level awaits
and unresolved targets the planner throws for.

`AcyclicOrderIsSourceOrder` compares the visit with ECMA-262's `InnerModuleEvaluation`, which is
recursive, by what that recursion has seen when: it passes over what it has seen, so after a
start it has seen what it had seen before and `NewlySeen(seen, start)`, what the start leads to past that.
`SeenBefore(m)` is what was visited before `m`, and `SeenAt(m, p)` what the language has seen when the loop
of `m` comes to request `p`. The property says that an entry or a request to a module that was
not seen begins it exactly then, and that groups of one module come in the order in which
their loops end (`RunsBefore`). `MCModuleEvaluation` also has the algorithm itself, as a
recursive operator: `RunsBeforeIsComputed`, which can be added as an INVARIANT to
`ModuleEvaluation.cfg`, says that `RunsBefore` is the order it computes, cycles included, and TLC finds
it satisfied.

### ReleaseBridge

A run is a record whose `step` is the workflow step it is at. `Lane` is the concurrency
group; GitHub keeps one running and one waiting run per group and cancels an older waiting
one (`Enqueue`, `Start`). `Fail` is any step that fails, a cancelled job or a lost answer —
also after an upload has reached npm (`Upload`). `FlightAppears` and `ArmToken` are the
environment. Versions are model values; `Prereleases`, `Malformed` and `Placeholder` say
what SemVer parsing makes of them.

### CompletionAlgebra, CompletionSets, SourceRules, SourceSteps, CompletionRun

`CompletionAlgebra` defines statements as trees (`Node`) with the constructors of the
intermediate representation and translates `getIrStatementCompletionSet` with its catch and
finally replacements: `Completions` makes the set of a statement from the sets of its parts.
`CompletionSets` is the recursion over the tree, `CompletionSet`.

`SourceRules` says how such a tree runs in ECMAScript. A control is at the path of a statement and
about to enter it, evaluate its expression, wait for its task, or complete it; `EnterStep`, `CompleteStep` and
`Continuation` are one rule each way. Any evaluation may throw; a jump, return or throw unwinds
to the clause or loop that takes it, and what a finalizer interrupts is held in `pending`, by the path of its `try`.
These rules are external to the repository (the language's own). `SourceSteps` follows them
until something is to be evaluated, waited for or settled (`Follow`), which is what a run can
observe.

`CompletionRun` takes one rule per action, on any body of `Statements`, whose sets
`DeclaredSet` are only asked to solve the equations of `Completions` at each statement.
`StatementsAssumption` says that, and which parts the statements of each kind have. The
three `Lowering` configurations give it `CompletionSet` and the statements of their bodies, so TLC evaluates the
assumption on what is computed there.

### AsyncSource, AsyncRun, AsyncStateMachine

`AsyncSource` runs a body by `SourceSteps`, one evaluation per step. It is the abstract specification.

`AsyncStateMachine` translates the builder function by function (`BuildList`, `BuildArm`,
`BuildIf`, `BuildLoop`, `BuildTry` with `BuildFinally` and `BuildCatch`, `BuildReturnAwait`) over a `draft` that
holds what the code's draft holds. Because the build is a pure function it is computed in
`Init`, and the transitions are the run. `ProgramsAssumption` says that no finalizer waits: the code walks
finalizers without the waits of the function (`compilerAsyncStateMachine.ts:764`, `:789`). `AsyncRun` has one action per step kind the Haxe backend renders
(`TestCondition`, `OpenRegion`, `CarryValue`, `AwaitOperand`, `AwaitSettles`, `Rethrow`...), over a
constant set of machines; every action of `AsyncStateMachine` but the last settlement is one of
these, conjoined with what the source does. What runs inside an execute step is a parameter of `BeginSource`
and `RunSource`, which `AsyncStateMachine` gives the statement that stands there.
Names are replaced by paths: the identity of a state is its kind and the path of its
statement, which is what the code's identity is up to spelling. The variable `source` runs
the source body beside the machine: it only takes the step the machine has just taken, and
becomes `diverged` when that is not its next one. `ImplementsSource` says that it follows
`AsyncSource` and therefore never diverges and never stops short.

An await inside a finalizer never reaches the builder: `createCompilerLoweringPassFinallyAwaitHoisting`
runs before it. The grammar has none.

### LoweringPasses, Lowering

| Model | Code (`packages/compiler-lowering`) |
| --- | --- |
| `Pipeline` | the control-flow passes a backend elects, in its order |
| `CStyleFor`, `SwitchFallthrough`, `SwitchSuspension`, `FinallyAwaitHoisting`, `CatchAwaitHoisting` via `LowerWith` | the five passes |
| `Remains` | the verifier of a pass |
| `Refused` | a statement on which a pass throws; the whole plan fails |
| `ApplyPass` | one pass and its verifier (`lowerIrModuleWithCompilerPasses`) |
| `Evaluate`, `Compute`, `Settle` | running the lowered body: an expression of the source, one on a temporary, the end |

A lowered statement remembers the position in the source its expression comes from, or the
temporary it works on. The lowered body is the `body` of `CompletionRun` and its `control` moves by the rules of
`SourceSteps`; `source` walks the source body beside it and becomes `diverged` when the lowered body evaluates something else than
what the source would. Temporaries hold numbers, or the position an error was caught from. The
passes have no run-time state, so a plan is executed in `Next` one pass at a time, and what each
pass promises is checked between them. `CompletionsAreDeclared`, of `CompletionRun`, is about the lowered
body; `StepsAsSource` says beside the refinement that the set of the source body names the way
in which that one is left.

### RustInitialization, OrderedInitialization

A `finalization` is what the orchestration may hand to the backend: the groups laid end to end
in `order`, the cycles among them, modules linked for their types only, what was kept, refused
or replaced by a placeholder, and the kinds of bindings and steps of each module. `Finalize`
is the session's one transition: refusals of eligibility and of execution, and the throws for
a reserved name and for two packages with one crate name. `Access` is what the public bindings then say of a name.

The emitted hook locks the module's state, decides, unlocks, works, and locks again. A lock is
held only across a few assignments, so a hook is two actions per phase: `EnterInstantiate`,
`CompleteInstantiate`, `EnterEvaluate`, `CompleteEvaluate`. `Bootstrap` is a thread of the host
that begins to call the hooks, in order. The place of a call in the schedule says which group's
hook and which module's is running, so groups need no state of their own. Today each piece of
emitted work is `Ok(())`; the second locked section is emitted with both arms, and `Fallible`
says for which calls the model takes the other one too. `OrderedInitialization` has no modules'
states, locks or threads: a schedule, work begun in its order, and a failure that stays.

`InitializedWholeOrNotAtAll` says what `docs/rust-package-compilation.md:62` asks of a package with
hooks without the operators of the planner: it lists the outputs, refusals, placeholders, cycles and
steps itself, so a planner that forgets one of them violates it. It is asked where a hook has
begun to work and where a public binding says `after-bootstrap`. A second finalization of a session is left out.

### ModuleExports, ExportInventory, ExportTracing, ExportResolution

`graph` holds, per module, at most one explicit export for a name (`explicit`) and the ordered list of
export-stars (`stars`); packages and which of them know each other; and the `lanes` and
`requests` to be asked. An export stands on a binding of its module, own or imported
(`Own`, `Through`), which may have another name. The language's answer (`Origins`) is the set of declarations a name
leads to: an explicit export shadows every star, `default` is not passed on by stars, the same
declaration reached twice is one. `Wellformed` says that the graph is a program: re-exported
names exist, unambiguously, and not by way of themselves. `IsGraph` is what a parser
guarantees: entries name modules of the graph, and a module binds a name once.

| Model | Code |
| --- | --- |
| `OpenLane` | `collectExportGraph`, and the direct declarations of its modules |
| `SourcePass`, `RepeatPass` | `resolveSourcePass` for each module, from the candidates of the last pass |
| `CloseLane`, `RefuseExport`, `AbandonLane` | the pass that changes nothing with `validateNamedExports`; the bound on passes |
| `calls`, `Active` | the open calls of `resolveCompilerPackageGraphExportSource`, and its `active` set |
| `Recall`, `Cut`, `ResolveHere`, `Descend`, `Return` | one such call: cached, on its own path, resolved by an explicit export, asking others, and back from them |
| `KeepBarrel`, `BeginRequest`, `LinkRequest` | one request of `createCompilerPackageGraphModuleDependencies` |

The recursion is modelled call by call, so that the cache can be compared with the calls that
are open while it is written. Namespace objects are told apart by the module that exports them. Requests whose dependencies the caller gives itself or has resolved to
several modules, several explicit exports of one name, and specifiers that lead out of the graph are not
modelled (`compilerPackageCompilation.ts:1030`, `:1114`, `:1128`, `:1138`), and types and values are not told apart.

## Runs

| Run | Configuration | Distinct states | What it shows |
| --- | --- | --- | --- |
| `package_graph` | `PackageGraph.cfg` | 481,926 | whatever fails, in whichever order refusals spread, and whatever a backend emits, replaces and adds: refusals are the closure of the own-refused modules, plan and output are those of the survivors, no refused module keeps a file, no published path collides where the code checks, `PackageVerdict` is implemented, and the compilation ends |
| `evaluation` | `ModuleEvaluation.cfg` | 345,743 | groups are the strongly connected components, dependencies first, and acyclic order is source order; every projection is rejected or can be evaluated like the plan it was cut from; planning ends |
| `release` | `ReleaseBridge.cfg` | 300,698 | the safety of publication for two runs of either workflow, and every queued run ends |
| `async_machine` | `AsyncStateMachine.cfg` | 66,175 | 1,275 bodies: the machine behaves exactly as the source |
| `lowering` | `Lowering.cfg` | 48,100 | 1,162 bodies with the backend that lowers them: the lowered body behaves exactly as the source and always comes back to it; completion sets declare every way out of both; no pass undoes another or changes its own output |
| `rust_initialization` | `RustInitialization.cfg` | 15,951 | 63 finalizations: hooks keep `OrderedInitialization`, begin only for a package that is whole, report what is true, reject a bootstrap only for the work of another thread, and return |
| `export_resolution` | `ExportResolution.cfg` | 739,020 | 16,075 graphs: the inventory publishes what the language resolves and nothing else, refuses a program only in the situation of `export_lane_order` or for want of passes, and every imported name is linked to its declaration |
| `case_collision`, `async_jump_over_cleanup`, `lowering_continue`, `lowering_break`, `export_lane_order` | | | counterexamples; see *Findings* |

Each property of a passing run has a mutant under `mutants`: the run finds the property
violated when that mutant replaces the definition.

### Bounds and why they are enough

- *Package graph.* Three modules in two packages (a, b in one, c in the other). Seven
  import graphs: none, a chain, a join, a cycle below an importer, an importer of a
  cycle's members, a ring, a self import. A refusal needs one step to be inherited and two
  to be inherited through another module; a collision needs two modules of one package and
  a third that is or is not refused by them. Every subset of modules may fail at each
  stage. Three path spellings of which two fold together; two slots (so a module can
  collide with itself). The theorems hold for all graphs.
- *Evaluation.* Four modules are the smallest number with two nested cycles that share no
  module, or a component of three with a tail: every runtime graph of them with at most two
  imports per module, in both orders, entered once. Projections cut between entries, so they
  are checked on graphs that mix runtime and type-only imports among three modules, the first with two
  imports and the others with one, beside a fourth that imports `b` and is the first or the
  last of two or three entries, with every selection and an optional fault.
- *Release.* Two runs make every race between two lanes or within one; a third run only
  waits or is cancelled by the lane rule. Two versions (one a prerelease), the placeholder,
  three tags of which `beta` is no channel, two polling attempts (`MaxAttempts`; the workflow
  makes 20; two distinguish "again" from "last"). No version is malformed in the run: such a
  version ends its run in the validation step, as the tag `beta` does; the theorems cover it.
- *Async.* Bodies are two nested compound statements around leaves and an await behind
  the inner one, all combinations of `if`, `while`, `do`, `try` with their clauses, plain
  and labelled jumps. Two levels are what a route needs to cross a region or a loop inside
  another. About 4,400 bodies are accepted by the builder; the passing run takes the 1,275
  that have none of the six shapes below. Loops need no bound: the state is the position,
  and a loop returns to it.

- *Lowering.* Every kind of clause (falling through, declaring, suspending, breaking and
  continuing directly or under an `if`, with and without labels) in a switch of two or three
  clauses, in a `for` with and without update and in a `while`, through the Rust
  passes; every try whose region, handler or finalizer suspends, jumps, returns or throws, in those
  loops and outside of them, through the Haxe and the C++ passes. `Broken` excludes five shapes,
  all named under *Findings* and *Known divergences*.
- *Rust initialization.* Three modules in one package or two, cyclic or not, a third one linked for types; every
  way to lose the initialization alone. They are what the orchestration hands over: a refused module
  is neither kept nor in the plan, and the plan is projected to what was not refused, so after a refusal the
  plan alone looks whole. A module is lost in a strict run (with its importers), in a best-effort run (with a
  placeholder, or outside the emit paths, and its importers kept), or to the emit-path filter alone. Two threads make every race on a module; two bootstraps
  (`MaxBootstraps`) make a repeated one meet a success, a failure or work in progress.
- *Exports.* Two barrels `a` and `b` over two modules that both declare `x`, with every entry
  for `x` (seven kinds) and every list of at most two stars, in both orders; the importer's
  package knows the other one or does not. A module that re-exports `x` beside a star,
  below two barrels that may pass each other on, six modules in all. And chains of renames
  between two modules, of every length up to the one that needs more passes than there are.
  Lanes and requests in every order. The theorems hold for all graphs.

`CHECK_DEADLOCK FALSE` stands where a compilation, a plan, all runs, all bootstraps or all
requests may be over. The async and lowering modules stutter explicitly when settled, so that a machine without a next step is
reported as a deadlock.

### Fairness

- `WF_vars(Next)` in `PackageGraph` and `ModuleEvaluation`: both are one synchronous call,
  which runs on until it returns or throws.
- `WF_vars(Start(r))` and `WF_vars(Step(r))` for each run in `ReleaseBridge`: GitHub starts
  a waiting run when its concurrency group is free, and each step ends, by the job's time limit
  if not by itself. Nothing is assumed of `Fail`, of Flight's release, of the token or of the
  triggers: a run ends whether or not Flight ever appears.
- `WF_vars(Step(t))` for each thread in `RustInitialization`: a hook never waits for another
  one; it holds a lock only across assignments and calls no other hook of the module meanwhile.
  That a host begins a bootstrap at all is not assumed.
- `WF_vars(Next)` in `Lowering`: a plan is one synchronous call, and emitted code runs on.
- `WF_vars(Next)` in `AsyncSource` and `AsyncStateMachine`: emitted code runs without
  interruption, and an awaited task is assumed to settle. Loops may still go on forever:
  the refinement then says that the machine goes on with the source.

## Proofs

The eight proof modules, with 57 theorems, are for every value of the constants under the named assumptions. Those
give types and make modules and names finitely many; only `MachinesAssumption` and `StatementsAssumption` say more.

`PackageGraphProofs` assumes `RequestAssumption`: every module has a package, outputs,
renames and package files are about the declared slots and paths, graphs and entries are
about the declared modules. It proves type correctness, then `Invariance`. The properties a
reader cares about are about the *end* of passes and are not inductive: while a propagation
runs, importers of refused modules are not refused yet. `InductiveInvariant` therefore says
what each pass hands to the next one: refusals are closed where a propagation has just
returned (`RefusalsClosed`); an inherited refusal keeps a refused import (`InheritedHaveCause`)
and has an own-refused module below it (`RefusalsExplained`, the part cycles could break);
the candidate plan stays closed under imports that are still available and keeps the available
entries although refusals keep arriving (`CandidateClosed`, `CandidateHasEntries`); no emission
without a plan; what is emittable stays within the emission context (`ContextCoversEmittable`).
The step lemma is split by what a step can disturb: `EffectsOfSteps` states once, for all
actions, that refusals only grow and which variables move in which phase, and one `Keeps...`
lemma per conjunct uses it. `Importers` and `Reachable` are defined as intersections of closed sets, so
least-set arguments (`ImportersLeast`, `ReachableWithinClosedSet`) replace induction over
paths. From the invariant follow the nine theorems after `Invariance`, and `Refinement`: each step is
a step of `PackageVerdict` under the mapping in `Verdict`, or stutters. A second invariant,
`FilesInvariant`, follows the files: there are none before emission; a module that is still to be
emitted has none and is selected and emittable; a refusal of a module's own takes its files
away; behind the collision check the files of available modules have distinct paths until the
backend renames some; placeholders are for best-effort runs; and a result with files of the
backend went through the check of package paths. `FilesCorrect` needs no part of
`InductiveInvariant`; `SurvivorsFiles` and `DistinctPaths` follow from it.

`ReleaseBridgeProofs` assumes `ReleaseAssumption`: malformed versions and prereleases are
versions, the placeholder is not one, `latest` is a tag, and there is at least one attempt.
`ReleaseInvariant` adds to the properties that lanes exclude each other, that uploads account
for the registry, and, per run, what each step may rely on (`RunInvariant`): a gated bridge
run has a visible version; behind the stamp the manifest is the requested version; behind the
proof the proved artifact is the manifest; between the query and the upload only another
*channel* can have published the version. The last one is why lanes are in the invariant: the query
result goes stale exactly when two runs of one lane overlap.

`ModuleEvaluationProofs` assumes `InputAssumption`, which types requests, entries and faults,
and proves for every graph that the visit is right, which TLC shows for four modules. The
argument for the groups is in four invariants, each on top of the first. `Structure`: stack and open calls are in
the order of the visits, what was visited is on the stack or in a group and never in both, and
a call stands at the request it made the call above it for. `OrderInvariant`: what a
call has behind it was visited, and its low link is no higher than the index of any module on the
stack that it, or a module that waits for it, requests (`LowLinksCover`). So when the low link
of a call equals its own index, nothing above it on the stack requests anything below it, which gives
`GroupsDependencyFirst`. `ReachInvariant` is the other half: a low link is the index of a module that
is reached (`LowLinksReached`), what is on the stack leads back to an open call that was
visited no later (`LeadsBack`), and open calls reach all that is above them (`CallersReach`); so what
is popped together is connected, and `StackIsOpen`. `CoverInvariant`: groups share nothing, what was
visited is evaluated by the entries, and the entries behind the loop were visited. At the end no
call is open, so the stack is empty, the groups cover exactly what the entries evaluate, and a
group is the whole component of each of its modules: a module it reaches is in no later group, and
one that reaches it back in no earlier one (`GroupsAreComponents`). `SplitsAreOpen` follows:
a selection closed under dependencies splits no group, so the last check of the projection
never fails. What a set evaluates is an intersection of closed sets here too, so no
induction over paths is needed.

`ProjectionKept` says that there is no projected plan before a projection, and then the projection of
the plan onto some selection. What that is rests on two lemmas about `Selected`: a finite set of numbers
has an increasing list, by the rank of each number, and any increasing list of its length has all of them
(`InOrderListsAll`); so a selection has every kept element, in their order (`SelectedInOrder`). The
modules of a group lead to each other, so one that shares a module with a set closed under requests is
inside it (`ProjectionGroups`), and an earlier group that a projected one depends on is projected
too: `ProjectionEvaluable`. `TypesHold` is the type invariant.

`SourceInvariant` is the argument for the order of the source language. At every moment the call that
runs has seen exactly what is visited, and each open call was begun when its caller had seen
exactly what was visited before it (`CallsSee`): a request to a visited module adds nothing to what is
seen, and a call that returns has seen, by its last request, all that its module newly leads to
(`SeenAtEnd`). That a start can be followed in parts (`SeenInTurn`) is the one fact about
`NewlySeen` this needs. So entries and requests begin modules in order (`BegunInOrder`). A visit
that has returned leads to no open call past what it had seen (`FinishedSeen`), so a group of
one module that is complete when another one is closed runs first (`SinglesInOrder`), from which
`SourceOrdered`. The invariant does not ask for acyclic graphs: only the groups it speaks of are outside cycles.

`RustInitializationProofs` assumes `InitializationAssumption` (an order repeats no module and is
not empty; the reentrancy error and `NoError` are no errors of the work) and
`PackagesAssumption` (finitely many packages, and cycles that are sets of modules). Its
invariant, `Inv`, says what three pieces of state say of each other: the log is a prefix of the
schedule; its length decides the state of every module, up to whether the work of the last
call is still running, done or failed; only the module of the last call may be worked on, and
then by exactly one thread; and no thread stands behind the call after the last one, nor on
that call before the work of the last is done. The last part is what makes `ReturnsCorrect`
provable: with two threads, one passes calls the other made. `RejectionCorrect` needs that a
working module always has its thread, and `PromiseKept` maps each hook step to `Begin`,
`Finish`, `Fail` or a stutter. `WholeOrNotAtAll`
goes from what the planner decides (`NothingRefused`: available means no incomplete subject and no refusal
of a cycle or step) to what the package then is. `PackagesAssumption`
is used there only, where packages are counted.

The export proofs assume `ModulesAssumption`, `NamesAssumption` (both sets are finite, and
`default` is a name) and `GraphsAssumption` (every graph satisfies `IsGraph`). What leads where is a
recursive function on sets of names, `Behind`; `GrowthIsClosure` shows, by the least measure of what is
missing, that such a function is the least closed set, and from there all arguments are
about least sets (`BehindIsLeast`, `OriginsUnfold`). `GraphFrozen` carries what is said of a graph
across steps.

`ExportResolutionProofs` first follows the passes of the inventory. `InventoryInv`: what is kept refers only to what is
kept, each kept name has what it declares and all that the names it leads to have (`Flows`), and in a program
only a name that stands for something has candidates (`Grounded`). A table that flows contains
`Origins` (`FlowsContain`), which is one half of `PublishedIsTrue`; a single candidate of a grounded table
is then the origin itself, which is the other half. Why a lane is *not* refused is harder,
since it is about how many passes there have been: `Progress` says that after k passes a name either has
its declarations or has more than k modules ahead of it (`Settled`, without cycles), and that a
candidate that arrives late has come through k modules by then (`Waits`, in graphs with cycles but no
re-export beside a star). As the passes are at least the modules, a lane that is given up has a
name that comes back to its module (`Revisits`); a lane whose candidates are exact is refused for an
error only. The two exceptions in `OtherRefusalsAreErrors` are those that the proof needed, and
both are real: TLC shows them (`export_lane_order`, and the pass bound under *Known divergences*).
`PublicationExact`: elsewhere what is kept is `Origins` itself, hence the same whatever the order of lanes.

Its second part, about tracing, says in `Told(p, r)` what an answer r for a name p is worth: a resolved name is
bound to something that p stands for; and without cycles the answer is exact. `TracingInv` keeps
that for the cache, for the answers of each open call (`CallTrue`: what its name leads to is answered or still
to be asked) and for the names of the request, and keeps the calls on one path
(`StackTrue`). So a name that is cut leads to itself, and in a graph without cycles nothing is
cut (`CutTold`). In cyclic graphs an answer made under a cut may be too little: `Told` asks only
that it is sound, which is what `NamesReachTheirDeclarations` needs, since it is about names with one
declaration.

`AsyncRunProofs` is about machines, not about bodies: `MachinesAssumption` says that every machine is
`WellFormed`, conditions that each concern one state and the states its steps name, as a bytecode
verifier checks them. Whatever a step goes to can be entered (`Enterable`): there is such a state, and it
ends in a step that says what is next, or is a cleanup on a rejection. Where a step goes to,
no more carriers are needed than were declared and bound where it comes from; `Bound` names the regions whose
carrier a cleanup will settle with. `BuiltMachines` is the set of machines the builder makes; TLC
finds all 584 of them in `async_machine`, and those in `async_jump_over_cleanup`, well-formed when it evaluates the
assumption. That the builder makes such machines from *every* body is induction over statements
and is not proved. It is also not so: of the bodies with a branching finalizer (`Breaking = {"cleanup"}`) some
machines are not well-formed, for the reason given under *Known divergences*.

`RunInv` holds in the middle of a run, in an unbounded number of rounds and with any number of waits: where
the machine stands can be entered and what it has passed over let the next step follow (`Placed`); what is running
belongs to the next step (`RunningFits`); the carriers of the state's regions are declared, and those
in `Bound`, or carried to earlier in this state, hold a returned value (`CarriersHold`); a handler has its
rejection (`RejectionsHold`). None of the properties is inductive without the second half of `CarriersHold`:
a step knows nothing of the routes that lead to it. There are four ways on, each a
lemma: settle (`Settling`), take the guard's route (`Routing`), go to a target (`Going`) and pass to the next step
(`Passes`). From the invariant follow `TypeOK`; that the emitted code never stops with the task pending
(`NeverStops`, the safety half of liveness: a state that runs out of steps would leave it pending forever);
that no carrier is read where it was not declared; that a cleanup settles with a return (`CleanupsSettleReturns`);
and `SettlesForAReason`. What the source would have done is not the subject here:
`ImplementsSource` compares, on the bodies of the run. TLC finds `NeverStops` and the other invariants
satisfied when they are added to `AsyncStateMachine.cfg`.

`CompletionRunProofs` proves the completion sets sound for every body: whatever its expressions evaluate to and
whatever throws, the way in which control leaves the body is in its set. `StatementsAssumption` is all it assumes:
the parts of a statement are statements again, of the kinds the grammar allows there, and each set is what
`Completions` makes of the sets of the parts. Nothing is said of how the sets come about, so no
induction over trees is needed: the invariant, `BodyInv`, walks the one path at which control stands.
`Along` says of every place on that path that control could get there (`Admits`): what stands before it in a
block can complete normally, the body of a `for` can come back to the update (`ComesBack`), the body of a `try` can throw
into its handler. `Fits` says what the control means for the statement it is at, above all that a completion
in flight is one in the set of the statement it leaves (`Ends`; a `case` may in addition throw, because its test belongs to
the switch). `Interrupts` is the part that is easy to get wrong: what waits for a finalizer is one of the ways
out of the body or the handler, however long the finalizer runs and whatever it pushes itself. For each kind one
lemma about sets says that how a part ends is how the statement may end or what it does next
(`BlockEnds`, `LoopEnds`, `ForEnds`, `IfTests`, `SwitchEnds`, `TryEnds`, `FinalizerEnds`), and the lemmas `EnterKeeps`,
`CompleteKeeps` and `EvaluateKeeps` apply them rule by rule. Places are compared as sequences, and `Up`, `Here`, `Down` and `Aside`
are the four ways a rule moves. The theorem is about `BodySpec`. `AsyncSource` and `Lowering` take the
same rules through `Follow`, and use `CompletionSet` for the declared sets: that it solves the equations, and that
what is settled there is declared, TLC checks on the bodies of the runs.

`InductiveInvariant`, `FilesInvariant` and `ReleaseInvariant` can be added as an INVARIANT to `PackageGraph.cfg`
and `ReleaseBridge.cfg`: TLC finds them satisfied. `StrictOutputClosed`, `RefusalsExplained`,
`InheritedRefusalsAttributed`, `SurvivorsWereEmitted` and `StackIsOpen` are proved and belong to no run, since the
properties of the runs are stronger or deeper.

### Only model-checked

Liveness (`Terminates`, `RunsEnd`, `EveryBootstrapReturns`, `ReturnsToSource`), because the
proof system here does not reason about fairness and `ENABLED`; that `RunsBefore` is what the recursive
algorithm of the language computes (`RunsBeforeIsComputed`), by induction over its calls;
what the builder of the async machines and the lowering passes compute, which are recursive over
statements and written with `RECURSIVE` operators, which the proof system does not support
(`ImplementsSource`, `StepsAsSource`, `PassesAreIdempotent`, `NothingComesBack`). `CompletionsAreDeclared` is proved for bodies
that run rule by rule, not for the lowered bodies of `Lowering`, whose temporaries decide some
conditions.

## Findings

Each is a run whose one property states what a comment, test or document of the repository
says, and which TLC finds violated; `PROJECT.json` quotes the texts.

| Run | What the code does |
| --- | --- |
| `case_collision` | the collision check skips records with any refusal, but best effort publishes the files of records whose refusals are inherited: two files of one package that differ by case (`compilerPackageCompilation.ts:1301`) |
| `async_jump_over_cleanup` | `break` and `continue` out of a `try` skip its `finally` (`compilerAsyncStateMachine.ts:487`, `:854`) |
| `lowering_continue` | a `continue` that is not the last statement of its clause stays in the loop over the states of the switch and runs the clause again (`compilerSwitchFallthroughLowering.ts:683`) |
| `lowering_break` | a `break` ahead of a clause's last statement leaves the loop around the switch once the clause is a branch (`compilerSwitchSuspensionLowering.ts:80`) |
| `export_lane_order` | a candidate taken from a star while a named re-export has none yet goes round a cycle of barrels; whether the lane converges depends on the lanes before it (`flightWorkspaceInventory.ts:598`) |

### Known divergences without a run of their own

The modules define the properties; each can be reproduced by adding it as an INVARIANT to
the named configuration, or a configuration like `AsyncJumpOverCleanup.cfg` with another `Breaking`.

- `PlaceholderQuotesOwnReason` (`PackageGraph.cfg`): the placeholder of a module that
  inherited a refusal and then failed to emit quotes the inherited one, since refusals sort by
  the text of their stage (`compilerPackageCompilation.ts:338`, `:747`).
- `CyclesKeepSourceOrder` (`ModuleEvaluation.cfg`): a cyclic group lists its modules in
  stack-pop order; for a → b, c; b → a; c → b that is not ECMAScript's order
  (`compilerModuleEvaluation.ts:893`).
- `TypeOnlySchedulesNothing` (`ModuleEvaluation.cfg`): a projection follows
  type-only imports and keeps the groups behind them scheduled (`compilerModuleEvaluation.ts:203`).
- `PlaceholderStaysLocal` (`ReleaseBridge.cfg`): a direct dispatch on a branch compares no
  tag and publishes `0.0.0` to `latest` (`release.yml:55`).
- `DoTestsEveryIteration` with `Breaking = {"continue"}`: `continue` in a `do` goes to the
  header, which is the body: the test is skipped (`compilerAsyncStateMachine.ts:652`).
- `ThrowReachesHandler` with `Breaking = {"throw"}`: a walked `throw` inside a `try` rejects
  the task and does not enter the handler (`compilerAsyncStateMachine.ts:475`, `haxeTaskEmission.ts:335`).
- `ReturnSurvivesCleanup` with `Breaking = {"return"}`: a return on one of several ways through
  a region, or through two finalizers, is lost or skips the outer one (`compilerAsyncStateMachine.ts:769`).
- `RejectionLeavesLast` with `Breaking = {"rethrow"}`: a rejection that a `finally` lets continue
  goes to the task's reject callback and not to the route of the region around it, so an outer
  `finally` or `catch` is passed over (`haxeTaskEmission.ts:268`, against its comment at `:265`). A rejection
  that a handler passes on to the regions around is in `async_machine`.
- `RejectionSurvivesCleanup` with `Breaking = {"cleanup"}`: the finalizer is walked twice
  with equal identities; the lookup finds the states of the normal route from the rejection
  route (`compilerAsyncStateMachine.ts:764`, `:785`).
- A `break` out of a `do` is accepted by the builder and refused at emission; the model
  refuses the body (`haxeTaskEmission.ts:317`).

- `StepsAsSource` in `Lowering.cfg` with `Breaking = {"update"}`: the update that c-style-for puts
  in front of a `continue` inside a `try` is caught by its handler when it throws.
- `StepsAsSource` with `Breaking = {"exit"}`: a clause that ends in a jump elsewhere and has a
  `break` of its own before it, or a `break` naming the switch inside a loop, does not leave
  the states of the switch.
- `PassesAreIdempotent` with `Breaking = {"ending"}`: a state clause that ends in a labelled
  `continue` or in a block gets a `break` appended at the second application.
- `AcyclicTracesAreExact` (`ExportResolution.cfg`) without its premise `Acyclic`: an `absent`
  that was cached under a cut cycle makes a later import keep the barrel, although
  `docs/cpp-package-compilation.md:7` says that named imports are traced to their declaration
  modules (`compilerPackageCompilation.ts:1155`). `NamesReachTheirDeclarations` holds all the
  same: the barrel does export the name.
- `PublishedIsTrue` without `Wellformed`: for a circular re-export the inventory may publish a
  star's candidate.
- `RefusalsAreErrors` with `Graphs <- ChainLanes`: the inventory's bound on passes is the number of
  modules and one (`flightWorkspaceInventory.ts:502`). With `a.x` from `b.y`, `b.y` from `a.default`, `a.default` from
  `b.x` and `b.x` from `c.x` a lane does not converge, although no name leads back to itself
  and docs/architecture.md:67 promises a fixed point.
- `import * as ns` with `export { ns }` is refused as unresolved. It is not in the graphs of the run.

Bodies of these shapes are excluded from `async_machine` and `lowering` by the conditions
`Broken` names, so that the runs show that there is nothing else.

## Abstractions to keep in mind

- Refusal texts, provenance, diagnostics and file contents are left out; refusals keep their
  stage, files their slot and path.
- The backend of `PackageGraph` is arbitrary within `Outputs`, `Renames` and `PackageFiles`.
- Replacement of retained files is checked before it is applied, and is one action.
- The projection of an evaluation plan and the construction of a state machine are pure and
  uninterrupted: one action, and the initial state.
- The async machine has no retained bindings: a value is told apart by the statement it comes
  from. `for-in` and `for-of` are not in the grammars; `for` and `switch` are in the one of `Lowering`
  and never reach the async builder.
- A lowered body's values are left out but for the temporaries the passes make.
- The order in which the source files of an export graph are visited in one pass does not matter,
  since a pass reads only the pass before it; the model computes a pass as one function.

## Plan

Done, in this order: `PackageGraph` with `PackageVerdict` and their proofs; `ModuleEvaluation`;
`ReleaseBridge` and its proofs; `CompletionSets`, `AsyncSource`, `AsyncStateMachine`;
`LoweringPasses` and `Lowering`; `RustInitialization` with `OrderedInitialization` and their
proofs; `ModuleExports`, `ExportInventory`, `ExportTracing`, `ExportResolution`; the proofs of
`ModuleEvaluation` and of the export modules; `AsyncRun`, taken out of `AsyncStateMachine`, and its proofs;
`CompletionAlgebra`, `SourceRules` and `CompletionRun`, taken out of `CompletionSets` and `SourceSteps`, and
the proof that completion sets are sound.

Next models, most important first:

1. Semantic patches and target-name allocation as operators against reference definitions.
2. Module facades: their identities and public names, over `ModuleExports`.
3. `CompletionSets` for `for-in` and `for-of`, and the declared completion paths of the async
   machine against its runs.
4. Assignability and shape identity of recursive structural types.
5. Task capability of the runtime contract, as a consumer of the async machine.

Next proofs: that what `SourceSteps` follows is a run of `CompletionRun`, for which `Follow` has to become
a function over a well-founded order of controls; then completion soundness carries over to every
lowered body. That the builder's machines are `WellFormed` and that the passes keep the runs of every body stay with TLC as
long as induction over statements is out of the prover's reach.
