---------------------------- MODULE PackageGraph ----------------------------
(***************************************************************************)
(* One package-graph compilation: compileTypeScriptPackageGraph of         *)
(* packages/compiler-orchestration/src/compilerPackageCompilation.ts.      *)
(*                                                                         *)
(* The function is sequential; `phase' is its program point.  What it      *)
(* cannot choose is a step's input: which modules fail to lower, which     *)
(* fail to plan, what the backend returns or throws for each module, and   *)
(* how the backend finalizes.  A module record {files, module, refusals}   *)
(* is split over three variables: `own' holds the stages at which the      *)
(* module itself was refused, `inherited' the modules that carry the one   *)
(* `dependency-refused' entry, and `files' the emitted files.              *)
(***************************************************************************)

CONSTANTS
  Modules,      \* module identities of the graph
  Packages,     \* package names
  PackageOf,    \* the package each module belongs to
  Paths,        \* emitted file paths, relative to their package
  Fold,         \* a path's NFC and lower-case collision key
  Slots,        \* positions in the file list one emission returns
  Outputs,      \* file lists a backend may return for one module
  Renames,      \* path changes a finalizing backend may apply
  PackageFiles, \* package-owned files a finalizing backend may add
  LinkGraphs,   \* module dependency sets to compile
  EntrySets,    \* entry modules of a compilation
  Scopes        \* modules the emit-path prefixes select

\* One file of a module: its position in the list and its path.
File == Slots \X Paths

\* The shape of a compilation request, checked by the validate* functions
\* before anything else runs; a package file is <<package, path>>.
ASSUME RequestAssumption ==
  /\ PackageOf \in [Modules -> Packages]
  /\ Outputs \subseteq SUBSET File
  /\ Renames \subseteq [Paths -> Paths]
  /\ PackageFiles \subseteq Packages \X Paths
  /\ LinkGraphs \subseteq SUBSET (Modules \X Modules)
  /\ EntrySets \subseteq SUBSET Modules
  /\ Scopes \subseteq SUBSET Modules

VARIABLES
  deps,           \* moduleDependencies, as <<importer, target>> pairs
  entries,        \* graphEntries
  selected,       \* modules the emit-path filter asks for
  bestEffort,     \* options.bestEffort
  phase,          \* program point
  resume,         \* program point after the running refusal propagation
  own,            \* stages of each module's own refusals
  inherited,      \* modules that carry a dependency-refused entry
  files,          \* files of each module's record
  candidate,      \* modules of candidateModuleEvaluation
  context,        \* emissionContextModules
  pending,        \* emission modules the loop has not reached
  initialization, \* modules of the projected evaluation plan
  replaced,       \* did finalization replace the module files
  packageFiles,   \* package files finalization returned
  placeholders,   \* placeholder path of each module that got one
  failure         \* code of the failure that ended the run

request == <<deps, entries, selected, bestEffort>>
refusals == <<own, inherited>>
results == <<replaced, packageFiles, placeholders>>
vars == <<request, phase, resume, refusals, files, candidate, context,
          pending, initialization, results, failure>>

Stages == {"lowering", "initialization", "emission"}
NoPath == "no path"
NoFailure == "none"

-----------------------------------------------------------------------------
(* Records *)

OwnRefused(m) == own[m] # {}
Refused(m) == OwnRefused(m) \/ m \in inherited
Available == {m \in Modules : ~Refused(m)}

\* The mode's whole semantic change: best effort also emits a module whose
\* refusals are all inherited.
Emittable(m) == IF bestEffort THEN ~OwnRefused(m) ELSE ~Refused(m)

Selected(m) == m \in selected

\* Entries and everything they reach over edges between available modules.
Reachable(roots, available) ==
  {m \in available :
     \A X \in SUBSET available :
        /\ roots \subseteq X
        /\ \A i \in X, t \in available : <<i, t>> \in deps => t \in X
        => m \in X}

\* The modules that import one of `broken', directly or not, and `broken'.
Importers(broken) ==
  {m \in Modules :
     \A X \in SUBSET Modules :
        /\ broken \subseteq X
        /\ \A i \in Modules, t \in X : <<i, t>> \in deps => i \in X
        => m \in X}

Key(m, f) == <<PackageOf[m], Fold[f[2]]>>

Collides(m, f, n, g) == <<m, f>> # <<n, g>> /\ Key(m, f) = Key(n, g)

RefusedDependencies(m) ==
  {t \in Modules : m \in inherited /\ <<m, t>> \in deps /\ Refused(t)}

\* The stage of a record's first refusal under compareCompilerPackageGraphRefusals:
\* refusals sort by the spelling of their stage.
FirstRefusalStage(m) ==
  CASE m \in inherited -> "dependency"
    [] m \notin inherited /\ "emission" \in own[m] -> "emission"
    [] m \notin inherited /\ own[m] = {"initialization"} -> "initialization"
    [] OTHER -> "lowering"

-----------------------------------------------------------------------------
(* Initial states: one validated request *)

Init ==
  /\ deps \in LinkGraphs
  /\ \E chosen \in EntrySets : entries = IF chosen = {} THEN Modules ELSE chosen
  /\ selected \in Scopes
  /\ bestEffort \in BOOLEAN
  /\ phase = "lowering"
  /\ resume = "initialization"
  /\ own = [m \in Modules |-> {}]
  /\ inherited = {}
  /\ files = [m \in Modules |-> {}]
  /\ candidate = {}
  /\ context = {}
  /\ pending = {}
  /\ initialization = {}
  /\ replaced = FALSE
  /\ packageFiles = {}
  /\ placeholders = [m \in Modules |-> NoPath]
  /\ failure = NoFailure

-----------------------------------------------------------------------------
(* Refusals *)

Refuse(broken, stage) ==
  own' = [m \in Modules |-> IF m \in broken THEN own[m] \cup {stage} ELSE own[m]]

\* Mutant: the record map keeps only the refused records.
DropOtherRecords(refused) == files' = [m \in refused |-> {}]
DropFiles(refused) ==
  files' = [m \in Modules |-> IF m \in refused THEN {} ELSE files[m]]

PropagateThen(next) == phase' = "propagation" /\ resume' = next

\* Lowering reports error diagnostics for the modules in `broken'.
Lower(broken) ==
  /\ phase = "lowering"
  /\ Refuse(broken, "lowering")
  /\ PropagateThen("initialization")
  /\ UNCHANGED <<request, inherited, files, candidate, context, pending,
                 initialization, results, failure>>

\* One edge of the propagation scan: an importer without refusals inherits
\* its target's; only a strict run drops what the importer had emitted.
PropagateRefusal(importer, target) ==
  /\ phase = "propagation"
  /\ <<importer, target>> \in deps
  /\ ~Refused(importer)
  /\ Refused(target)
  /\ inherited' = inherited \cup {importer}
  /\ IF bestEffort THEN UNCHANGED files ELSE DropFiles({importer})
  /\ UNCHANGED <<request, phase, resume, own, candidate, context, pending,
                 initialization, results, failure>>

\* Mutant: a single scan, without the loop until nothing changes.
FinishFirstScan ==
  /\ phase = "propagation"
  /\ phase' = resume
  /\ UNCHANGED <<request, resume, refusals, files, candidate, context, pending,
                 initialization, results, failure>>

\* A whole scan changed nothing: return to the caller.
FinishPropagation ==
  /\ phase = "propagation"
  /\ \A i, t \in Modules : <<i, t>> \in deps /\ Refused(t) => Refused(i)
  /\ phase' = resume
  /\ UNCHANGED <<request, resume, refusals, files, candidate, context, pending,
                 initialization, results, failure>>

-----------------------------------------------------------------------------
(* The initialization plan *)

Plannable == Reachable(entries \cap Available, Available)

\* Mutant: the failed module is not recorded as refused.
RetryInitialization(m) ==
  /\ phase = "initialization"
  /\ m \in Plannable
  /\ DropFiles({m})
  /\ PropagateThen("initialization")
  /\ UNCHANGED <<request, refusals, candidate, context, pending,
                 initialization, results, failure>>

\* Planning failed and named a module: it is refused and planning retries
\* once the refusal has propagated.
RefuseInitialization(m) ==
  /\ phase = "initialization"
  /\ m \in Plannable
  /\ Refuse({m}, "initialization")
  /\ DropFiles({m})
  /\ PropagateThen("initialization")
  /\ UNCHANGED <<request, inherited, candidate, context, pending,
                 initialization, results, failure>>

PlanInitialization ==
  /\ phase = "initialization"
  /\ candidate' = Plannable
  /\ PropagateThen("context")
  /\ UNCHANGED <<request, refusals, files, context, pending, initialization,
                 results, failure>>

-----------------------------------------------------------------------------
(* Emission *)

\* Mutant: the emission context is narrowed to what must be written.
OpenEmissionOfSelection ==
  /\ phase = "context"
  /\ context' = {m \in Modules : Emittable(m) /\ Selected(m)}
  /\ pending' = {m \in Modules : Emittable(m) /\ Selected(m)}
  /\ phase' = "emission"
  /\ UNCHANGED <<request, resume, refusals, files, candidate, initialization,
                 results, failure>>

\* What the backend may consult is every emittable module; what it must
\* write is the part of it the emit-path filter selects.
OpenEmission ==
  /\ phase = "context"
  /\ context' = {m \in Modules : Emittable(m)}
  /\ pending' = {m \in Modules : Emittable(m) /\ Selected(m)}
  /\ phase' = "emission"
  /\ UNCHANGED <<request, resume, refusals, files, candidate, initialization,
                 results, failure>>

EmitModule(m, list) ==
  /\ phase = "emission"
  /\ m \in pending
  /\ files' = [files EXCEPT ![m] = @ \cup list]
  /\ pending' = pending \ {m}
  /\ UNCHANGED <<request, phase, resume, refusals, candidate, context,
                 initialization, results, failure>>

\* The backend threw an Error for m: an emission refusal, and the loop goes on.
RefuseEmission(m) ==
  /\ phase = "emission"
  /\ m \in pending
  /\ Refuse({m}, "emission")
  /\ pending' = pending \ {m}
  /\ UNCHANGED <<request, phase, resume, inherited, files, candidate, context,
                 initialization, results, failure>>

FinishEmission ==
  /\ phase = "emission"
  /\ pending = {}
  /\ phase' = "collisions"
  /\ UNCHANGED <<request, resume, refusals, files, candidate, context, pending,
                 initialization, results, failure>>

\* Mutant: only two different modules can collide.
CollidingModules ==
  {m \in Available :
     \E f \in files[m], n \in Available \ {m} : \E g \in files[n] : Collides(m, f, n, g)}

\* Every record without refusals that shares a folded path with a file of
\* such a record, its own other files included, is refused and emptied.
Colliding ==
  {m \in Available :
     \E f \in files[m], n \in Available : \E g \in files[n] : Collides(m, f, n, g)}

\* Mutant: the refusals of the collisions are not propagated.
RefuseOutputCollisionsLocally ==
  /\ phase = "collisions"
  /\ Refuse(Colliding, "emission")
  /\ DropFiles(Colliding)
  /\ phase' = "projection"
  /\ UNCHANGED <<request, resume, inherited, candidate, context, pending,
                 initialization, results, failure>>

\* Mutant: colliding records keep their files.
RefuseCollidingAndKeep ==
  /\ phase = "collisions"
  /\ Refuse(Colliding, "emission")
  /\ PropagateThen("projection")
  /\ UNCHANGED <<request, inherited, files, candidate, context, pending,
                 initialization, results, failure>>

RefuseOutputCollisions ==
  /\ phase = "collisions"
  /\ Refuse(Colliding, "emission")
  /\ DropFiles(Colliding)
  /\ PropagateThen("projection")
  /\ UNCHANGED <<request, inherited, candidate, context, pending,
                 initialization, results, failure>>

-----------------------------------------------------------------------------
(* The projected plan, finalization and publication *)

Retained == candidate \cap Available

\* The projection refuses a selection that is not closed under dependencies;
\* one that splits a strongly connected component is not closed either.
ProjectionThrows ==
  \E m \in Retained, t \in Modules : <<m, t>> \in deps /\ t \notin Retained

Fail(code) == phase' = "failed" /\ failure' = code

\* Mutant: keep every retained module, reachable or not.
ProjectRetained ==
  /\ phase = "projection"
  /\ IF ProjectionThrows
     THEN Fail("non-closed-selection") /\ UNCHANGED initialization
     ELSE /\ initialization' = Retained
          /\ phase' = "finalization"
          /\ UNCHANGED failure
  /\ UNCHANGED <<request, resume, refusals, files, candidate, context, pending,
                 results>>

ProjectInitialization ==
  /\ phase = "projection"
  /\ IF ProjectionThrows
     THEN Fail("non-closed-selection") /\ UNCHANGED initialization
     ELSE /\ initialization' = Reachable(entries \cap Retained, Retained)
          /\ phase' = "finalization"
          /\ UNCHANGED failure
  /\ UNCHANGED <<request, resume, refusals, files, candidate, context, pending,
                 results>>

\* Mutant: write only modules without refusals.
SurvivingStrictly == {m \in Modules : Selected(m) /\ ~Refused(m)}

\* finalization.moduleFiles comes from these records.
Surviving == {m \in Modules : Selected(m) /\ Emittable(m)}

\* Replacements name a retained file by module and path.
ReplacementsNameFiles ==
  \A m \in Surviving : \A f, g \in files[m] : f[2] = g[2] => f = g

\* The backend finalizes: it adds package files, and either keeps the module
\* files or replaces every one of them, renaming paths as it likes.
FinalizePackageGraph(added, rename) ==
  /\ phase = "finalization"
  /\ packageFiles' = added
  /\ \/ replaced' = FALSE /\ UNCHANGED files
     \/ /\ ReplacementsNameFiles
        /\ replaced' = TRUE
        /\ files' = [m \in Modules |->
             IF m \in Surviving THEN {<<f[1], rename[f[2]]>> : f \in files[m]} ELSE files[m]]
  /\ phase' = "placeholders"
  /\ UNCHANGED <<request, resume, refusals, candidate, context, pending,
                 initialization, placeholders, failure>>

\* A replacement list that is not exactly the retained files ends the run.
RejectReplacements ==
  /\ phase = "finalization"
  /\ Fail("invalid-module-file-replacement")
  /\ UNCHANGED <<request, resume, refusals, files, candidate, context, pending,
                 initialization, results>>

PlaceholderModules ==
  {m \in Modules : bestEffort /\ Selected(m) /\ ~Emittable(m)}

\* A best-effort run asks for a replaceable file for each module refused for
\* its own reasons; a backend may have none for a module.
EmitPlaceholders(path) ==
  /\ phase = "placeholders"
  /\ placeholders' =
       [m \in Modules |-> IF m \in PlaceholderModules THEN path[m] ELSE NoPath]
  /\ phase' = "publication"
  /\ UNCHANGED <<request, resume, refusals, files, candidate, context, pending,
                 initialization, replaced, packageFiles, failure>>

\* The refusal a placeholder request quotes is the record's first.
PlaceholderReason(m) == FirstRefusalStage(m)

\* Every file of the run: who produced it, its package and its path.
ModuleOutput(producers) ==
  UNION {{[source |-> <<m, f[1]>>, package |-> PackageOf[m], path |-> f[2]] :
            f \in files[m]} : m \in producers}
PlaceholderOutput ==
  {[source |-> <<m, "placeholder">>, package |-> PackageOf[m], path |-> placeholders[m]] :
     m \in {n \in Modules : placeholders[n] # NoPath}}
PackageOutput ==
  {[source |-> <<p[1], "package">>, package |-> p[1], path |-> p[2]] : p \in packageFiles}

PathsCollide(published) ==
  \E f, g \in published :
     /\ f # g
     /\ f.package = g.package
     /\ Fold[f.path] = Fold[g.path]

Published == ModuleOutput(Surviving) \cup PlaceholderOutput \cup PackageOutput

\* The package-file check covers every record, and runs only when the backend
\* returned package files or replaced the module files.
Publish ==
  /\ phase = "publication"
  /\ IF /\ packageFiles # {} \/ replaced
        /\ PathsCollide(ModuleOutput(Modules) \cup PlaceholderOutput \cup PackageOutput)
     THEN Fail("duplicate-emitted-path")
     ELSE phase' = "done" /\ UNCHANGED failure
  /\ UNCHANGED <<request, resume, refusals, files, candidate, context, pending,
                 initialization, results>>

\* What the run calls and does not catch, or catches and throws again, ends it: an
\* error of the initialization plan that names no module, createEmissionSession, a
\* throw of emitModule that is no Error, the export plan, finalizePackageGraph, the
\* public binding plan, emitRefusalPlaceholder and the output validators.
BackendThrows ==
  /\ phase \in {"initialization", "context", "emission", "finalization", "placeholders",
               "publication"}
  /\ phase = "emission" => pending # {}
  /\ Fail("backend")
  /\ UNCHANGED <<request, resume, refusals, files, candidate, context, pending,
                 initialization, results>>

-----------------------------------------------------------------------------

Next ==
  \/ \E broken \in SUBSET Modules : Lower(broken)
  \/ \E importer, target \in Modules : PropagateRefusal(importer, target)
  \/ FinishPropagation
  \/ \E m \in Modules : RefuseInitialization(m)
  \/ PlanInitialization
  \/ OpenEmission
  \/ \E m \in Modules : \E list \in Outputs : EmitModule(m, list)
  \/ \E m \in Modules : RefuseEmission(m)
  \/ FinishEmission
  \/ RefuseOutputCollisions
  \/ ProjectInitialization
  \/ \E added \in SUBSET PackageFiles : \E rename \in Renames :
       FinalizePackageGraph(added, rename)
  \/ RejectReplacements
  \/ \E path \in [PlaceholderModules -> Paths \cup {NoPath}] : EmitPlaceholders(path)
  \/ Publish
  \/ BackendThrows

\* The compilation is one synchronous call: it keeps running until it returns.
Spec == Init /\ [][Next]_vars /\ WF_vars(Next)

-----------------------------------------------------------------------------
(* Properties *)

Phases == {"lowering", "propagation", "initialization", "context", "emission",
           "collisions", "projection", "finalization", "placeholders",
           "publication", "done", "failed"}

\* After the last propagation, on the way to a result.
Settled == phase \in {"finalization", "placeholders", "publication", "done"}

\* The types of the variables.
TypeOK ==
  /\ deps \in SUBSET (Modules \X Modules)
  /\ entries \in SUBSET Modules
  /\ selected \in SUBSET Modules
  /\ bestEffort \in BOOLEAN
  /\ phase \in Phases
  /\ resume \in {"initialization", "context", "projection"}
  /\ own \in [Modules -> SUBSET Stages]
  /\ inherited \in SUBSET Modules
  /\ files \in [Modules -> SUBSET File]
  /\ candidate \in SUBSET Modules
  /\ context \in SUBSET Modules
  /\ pending \in SUBSET Modules
  /\ initialization \in SUBSET Modules
  /\ replaced \in BOOLEAN
  /\ packageFiles \in SUBSET PackageFiles
  /\ placeholders \in [Modules -> Paths \cup {NoPath}]
  /\ failure \in {NoFailure, "non-closed-selection", "backend",
                 "invalid-module-file-replacement", "duplicate-emitted-path"}

\* No refusal is inherited without an origin: every dependency-refused module
\* leads, import by import, to a module refused for reasons of its own, so two
\* modules of a cycle can never refuse each other.
RefusalsExplained == inherited \subseteq Importers({m \in Modules : OwnRefused(m)})

\* The scan order of propagateCompilerPackageGraphRefusals cannot matter: the
\* refused modules of a result are exactly the importers of the own-refused.
RefusalsAreClosure ==
  Settled => Modules \ Available = Importers({m \in Modules : OwnRefused(m)})

\* Every inherited refusal of a result can be attributed: the report lists at
\* least one refused module that the refused one imports.
InheritedRefusalsAttributed ==
  Settled => \A m \in inherited : RefusedDependencies(m) # {}

\* The projection of the candidate plan onto the surviving modules never
\* throws, whatever was refused between planning and projection.
ProjectionIsTotal == failure # "non-closed-selection"

\* The projected plan is the plan a fresh reachability pass over the surviving
\* modules would give: no survivor is lost, no refused module is kept.
PlanMatchesSurvivors ==
  Settled => initialization = Reachable(entries \cap Available, Available)

\* While a strict run emits, every import of every module in the emission
\* context is in the context: the backend never looks up a missing owner.
ContextClosed ==
  phase = "emission" /\ ~bestEffort =>
    \A m \in context, t \in Modules : <<m, t>> \in deps => t \in context

\* A module that survives to the result was handed to the backend: it was in
\* the emission context when emission opened, in either mode.
SurvivorsWereEmitted == Settled => Surviving \subseteq context

\* A strict run publishes a module only if nothing it imports was refused, so
\* the selected part of the output is closed under imports.
StrictOutputClosed ==
  phase = "done" /\ ~bestEffort =>
    \A m \in Surviving, t \in Modules :
      <<m, t>> \in deps => ~Refused(t) /\ (Selected(t) => t \in Surviving)

\* Records refused after they emitted keep no files: whatever has files in a
\* result is a selected, emittable module.
OnlySurvivorsHaveFiles ==
  Settled => \A m \in Modules : files[m] # {} => m \in Surviving

\* No published file of a package overwrites another on a case-insensitive
\* host, in every strict run and in every run whose package-file check ran.
PublishedPathsDistinct ==
  phase = "done" /\ (~bestEffort \/ packageFiles # {} \/ replaced) =>
    ~PathsCollide(Published)

\* The verdict of the run as PackageVerdict sees it.
Verdict == INSTANCE PackageVerdict WITH
  graph <- deps,
  roots <- entries,
  scope <- selected,
  lenient <- bestEffort,
  culprits <- {m \in Modules : OwnRefused(m)},
  verdict <- CASE phase = "failed" -> [status |-> "failed"]
               [] Settled -> [status   |-> "settled",
                              refused  |-> Modules \ Available,
                              written  |-> Surviving,
                              runnable |-> initialization]
               [] OTHER -> [status |-> "open"]

\* The compilation implements the abstract verdict: refusals are never taken
\* back, and what is refused, written and runnable is decided once, by the
\* culprits, the graph and the mode, not by the order of the passes.
ImplementsVerdict == Verdict!Spec

\* The planning retries, the propagation scans and the emission loop end.
Terminates == <>(phase \in {"done", "failed"})

\* A module owns its output, so best effort refuses colliding paths as well.
BestEffortPathsDistinct == phase = "done" => ~PathsCollide(ModuleOutput(Surviving))

\* A placeholder quotes the module's own reason.
PlaceholderQuotesOwnReason ==
  Settled => \A m \in Modules : placeholders[m] # NoPath => PlaceholderReason(m) \in own[m]

-----------------------------------------------------------------------------
(* The inductive invariant behind the refusal properties: what the passes    *)
(* that read the records rely on, each while it is still needed.             *)

OwnSet == {m \in Modules : OwnRefused(m)}

\* Wherever a propagation has just returned, importers of refused modules are
\* refused.
RefusalsClosed ==
  phase \in {"initialization", "context", "projection"} \/ Settled =>
    \A i, t \in Modules : <<i, t>> \in deps /\ Refused(t) => Refused(i)

\* An inherited refusal keeps the refused import it came from.
InheritedHaveCause ==
  \A m \in inherited : \E t \in Modules : <<m, t>> \in deps /\ Refused(t)

\* The candidate plan stays closed under the imports that are still available,
\* although refusals keep arriving after planning.
CandidateClosed ==
  \A m \in candidate, t \in Available : <<m, t>> \in deps => t \in candidate

\* Once planned, the candidate holds every entry that is still available.
Planned == resume \in {"context", "projection"}
CandidateHasEntries == Planned => entries \cap Available \subseteq candidate

\* No pass after planning runs without a plan.
PlannedBeforeEmission ==
  phase \in {"context", "emission", "collisions", "projection"} => Planned

\* After the emission context is fixed, emittable modules can only be lost.
ContextCoversEmittable ==
  phase \in {"emission", "collisions", "projection"} \/ Settled \/ resume = "projection" =>
    \A m \in Modules : Emittable(m) => m \in context

\* What a step of the compilation preserves, whatever it does: the parts above
\* with the properties that follow from them where a pass returns.
InductiveInvariant ==
  /\ TypeOK
  /\ RefusalsExplained
  /\ RefusalsClosed
  /\ InheritedHaveCause
  /\ CandidateClosed
  /\ CandidateHasEntries
  /\ PlannedBeforeEmission
  /\ ContextCoversEmittable
  /\ ContextClosed
  /\ ProjectionIsTotal
  /\ PlanMatchesSurvivors

=============================================================================
