------------------------- MODULE PackageGraphProofs -------------------------
(***************************************************************************)
(* Theorems about PackageGraph, for every set of modules, every import     *)
(* graph and every behaviour of the backend.                               *)
(***************************************************************************)
EXTENDS PackageGraph, TLAPS

-----------------------------------------------------------------------------
(* Type correctness *)

LEMMA InitTypeOK == Init => TypeOK
<1> SUFFICES ASSUME Init PROVE TypeOK
  OBVIOUS
<1> USE RequestAssumption DEF Init
<1>1. deps \in SUBSET (Modules \X Modules) /\ selected \in SUBSET Modules /\ bestEffort \in BOOLEAN
  OBVIOUS
<1>2. entries \in SUBSET Modules
  OBVIOUS
<1>3. phase \in Phases /\ resume \in {"initialization", "context", "projection"}
  BY DEF Phases
<1>4. own \in [Modules -> SUBSET Stages] /\ files \in [Modules -> SUBSET File]
  OBVIOUS
<1>5. placeholders \in [Modules -> Paths \cup {NoPath}]
  OBVIOUS
<1>6. failure \in {NoFailure, "non-closed-selection", "backend",
                   "invalid-module-file-replacement", "duplicate-emitted-path"}
  OBVIOUS
<1> QED
  BY <1>1, <1>2, <1>3, <1>4, <1>5, <1>6 DEF TypeOK

\* What the steps assign to the records: stages to `own', files to `files'.
LEMMA RefuseType ==
  ASSUME TypeOK, NEW broken \in SUBSET Modules, NEW stage \in Stages, Refuse(broken, stage)
  PROVE  own' \in [Modules -> SUBSET Stages]
BY DEF TypeOK, Refuse

LEMMA DropFilesType ==
  ASSUME TypeOK, NEW refused, DropFiles(refused)
  PROVE  files' \in [Modules -> SUBSET File]
BY DEF TypeOK, DropFiles

LEMMA FinalizeType ==
  ASSUME TypeOK, NEW rename \in [Paths -> Paths],
         files' = [m \in Modules |->
           IF m \in Surviving THEN {<<f[1], rename[f[2]]>> : f \in files[m]} ELSE files[m]]
  PROVE  files' \in [Modules -> SUBSET File]
<1> SUFFICES ASSUME NEW m \in Modules, NEW f \in files[m]
             PROVE  <<f[1], rename[f[2]]>> \in File
  BY DEF TypeOK
<1>1. f \in Slots \X Paths
  BY DEF TypeOK, File
<1> QED
  BY <1>1 DEF File

LEMMA NextTypeOK == TypeOK /\ [Next]_vars => TypeOK'
<1> SUFFICES ASSUME TypeOK, [Next]_vars PROVE TypeOK'
  OBVIOUS
<1> USE RequestAssumption DEF TypeOK, Phases, request, refusals, results
<1>1. ASSUME NEW broken \in SUBSET Modules, Lower(broken) PROVE TypeOK'
  <2>1. own' \in [Modules -> SUBSET Stages]
    BY <1>1, RefuseType DEF Lower, Stages
  <2> QED
    BY <1>1, <2>1 DEF Lower, PropagateThen
<1>2. ASSUME NEW importer \in Modules, NEW target \in Modules,
             PropagateRefusal(importer, target)
      PROVE  TypeOK'
  <2>1. files' \in [Modules -> SUBSET File]
    BY <1>2, DropFilesType DEF PropagateRefusal
  <2> QED
    BY <1>2, <2>1 DEF PropagateRefusal
<1>3. CASE FinishPropagation
  BY <1>3 DEF FinishPropagation
<1>4. ASSUME NEW m \in Modules, RefuseInitialization(m) PROVE TypeOK'
  <2>1. own' \in [Modules -> SUBSET Stages]
    BY <1>4, RefuseType DEF RefuseInitialization, Stages
  <2>2. files' \in [Modules -> SUBSET File]
    BY <1>4, DropFilesType DEF RefuseInitialization
  <2> QED
    BY <1>4, <2>1, <2>2 DEF RefuseInitialization, PropagateThen
<1>5. CASE PlanInitialization
  <2>1. Plannable \subseteq Modules
    BY DEF Plannable, Reachable, Available
  <2> QED
    BY <1>5, <2>1 DEF PlanInitialization, PropagateThen
<1>6. CASE OpenEmission
  BY <1>6 DEF OpenEmission
<1>7. ASSUME NEW m \in Modules, NEW list \in Outputs, EmitModule(m, list) PROVE TypeOK'
  <2>1. files' \in [Modules -> SUBSET File]
    BY <1>7 DEF EmitModule
  <2> QED
    BY <1>7, <2>1 DEF EmitModule
<1>8. ASSUME NEW m \in Modules, RefuseEmission(m) PROVE TypeOK'
  <2>1. own' \in [Modules -> SUBSET Stages]
    BY <1>8, RefuseType DEF RefuseEmission, Stages
  <2> QED
    BY <1>8, <2>1 DEF RefuseEmission
<1>9. CASE FinishEmission
  BY <1>9 DEF FinishEmission
<1>10. CASE RefuseOutputCollisions
  <2>1. Colliding \in SUBSET Modules
    BY DEF Colliding, Available
  <2>2. own' \in [Modules -> SUBSET Stages]
    BY <1>10, <2>1, RefuseType DEF RefuseOutputCollisions, Stages
  <2>3. files' \in [Modules -> SUBSET File]
    BY <1>10, DropFilesType DEF RefuseOutputCollisions
  <2> QED
    BY <1>10, <2>2, <2>3 DEF RefuseOutputCollisions, PropagateThen
<1>11. CASE ProjectInitialization
  <2>1. Reachable(entries \cap Retained, Retained) \subseteq Modules
    BY DEF Reachable, Retained, Available
  <2>2. /\ phase' \in Phases
        /\ failure' \in {failure, "non-closed-selection"}
        /\ initialization' \in {initialization, Reachable(entries \cap Retained, Retained)}
    BY <1>11 DEF ProjectInitialization, Fail
  <2>3. UNCHANGED <<request, resume, refusals, files, candidate, context, pending, results>>
    BY <1>11 DEF ProjectInitialization
  <2> QED
    BY <2>1, <2>2, <2>3
<1>12. ASSUME NEW added \in SUBSET PackageFiles, NEW rename \in Renames,
              FinalizePackageGraph(added, rename)
       PROVE  TypeOK'
  <2>1. files' \in [Modules -> SUBSET File]
    <3>1. rename \in [Paths -> Paths]
      OBVIOUS
    <3> QED
      BY <1>12, <3>1, FinalizeType DEF FinalizePackageGraph
  <2> QED
    BY <1>12, <2>1 DEF FinalizePackageGraph
<1>13. CASE RejectReplacements
  BY <1>13 DEF RejectReplacements, Fail
<1>14. ASSUME NEW path \in [PlaceholderModules -> Paths \cup {NoPath}], EmitPlaceholders(path)
       PROVE  TypeOK'
  <2>1. placeholders' \in [Modules -> Paths \cup {NoPath}]
    BY <1>14 DEF EmitPlaceholders
  <2> QED
    BY <1>14, <2>1 DEF EmitPlaceholders
<1>15. CASE Publish
  BY <1>15 DEF Publish, Fail
<1>16. CASE BackendThrows
  BY <1>16 DEF BackendThrows, Fail
<1>17. CASE UNCHANGED vars
  BY <1>17 DEF vars
<1> QED
  BY <1>1, <1>2, <1>3, <1>4, <1>5, <1>6, <1>7, <1>8, <1>9, <1>10, <1>11,
     <1>12, <1>13, <1>14, <1>15, <1>16, <1>17 DEF Next

\* The variables keep their types: in particular a record never carries a stage
\* or a file the compilation does not know.
THEOREM TypeCorrect == Spec => []TypeOK
BY InitTypeOK, NextTypeOK, PTL DEF Spec

-----------------------------------------------------------------------------
(* Importers and reachability *)

\* `Importers(broken)' is the least set that contains `broken' and, with a
\* module, every module that imports it.
LEMMA ImportersContain ==
  ASSUME NEW broken \in SUBSET Modules
  PROVE  broken \subseteq Importers(broken)
BY DEF Importers

LEMMA ImportersStep ==
  ASSUME NEW broken, NEW i \in Modules, NEW t \in Importers(broken), <<i, t>> \in deps
  PROVE  i \in Importers(broken)
<1> SUFFICES ASSUME NEW X \in SUBSET Modules, broken \subseteq X,
                    \A j \in Modules, n \in X : <<j, n>> \in deps => j \in X
             PROVE  i \in X
  BY DEF Importers
<1>1. t \in X
  BY DEF Importers
<1> QED
  BY <1>1

LEMMA ImportersLeast ==
  ASSUME NEW broken, NEW X \in SUBSET Modules, broken \subseteq X,
         \A i \in Modules, t \in X : <<i, t>> \in deps => i \in X
  PROVE  Importers(broken) \subseteq X
BY DEF Importers

LEMMA ImportersMonotone ==
  ASSUME NEW broken \in SUBSET Modules, NEW more \in SUBSET Modules, broken \subseteq more
  PROVE  Importers(broken) \subseteq Importers(more)
<1> SUFFICES ASSUME NEW m \in Importers(broken), NEW X \in SUBSET Modules, more \subseteq X,
                    \A i \in Modules, t \in X : <<i, t>> \in deps => i \in X
             PROVE  m \in X
  BY DEF Importers
<1>1. broken \subseteq X
  OBVIOUS
<1> QED
  BY <1>1 DEF Importers

\* Reaching over fewer modules gives the same set when the fewer modules hold
\* the roots and everything their imports lead to.
LEMMA ReachableWithinClosedSet ==
  ASSUME NEW roots, NEW available \in SUBSET Modules, NEW kept \in SUBSET available,
         roots \subseteq kept,
         \A i \in kept, t \in available : <<i, t>> \in deps => t \in kept
  PROVE  Reachable(roots, kept) = Reachable(roots, available)
<1>1. ASSUME NEW m \in Reachable(roots, kept) PROVE m \in Reachable(roots, available)
  <2>1. m \in kept
    BY DEF Reachable
  <2> SUFFICES ASSUME NEW X \in SUBSET available, roots \subseteq X,
                      \A i \in X, t \in available : <<i, t>> \in deps => t \in X
               PROVE  m \in X
    BY <2>1 DEF Reachable
  <2>2. DEFINE Y == X \cap kept
  <2>3. Y \in SUBSET kept /\ roots \subseteq Y
    OBVIOUS
  <2>4. \A i \in Y, t \in kept : <<i, t>> \in deps => t \in Y
    OBVIOUS
  <2>5. m \in Y
    BY <2>3, <2>4 DEF Reachable
  <2> QED
    BY <2>5
<1>2. ASSUME NEW m \in Reachable(roots, available) PROVE m \in Reachable(roots, kept)
  <2>1. m \in kept
    BY DEF Reachable
  <2> SUFFICES ASSUME NEW X \in SUBSET kept, roots \subseteq X,
                      \A i \in X, t \in kept : <<i, t>> \in deps => t \in X
               PROVE  m \in X
    BY <2>1 DEF Reachable
  <2>2. X \in SUBSET available
    OBVIOUS
  <2>3. \A i \in X, t \in available : <<i, t>> \in deps => t \in X
    OBVIOUS
  <2> QED
    BY <2>2, <2>3 DEF Reachable
<1> QED
  BY <1>1, <1>2

\* A plan holds, with a module, every available module that one imports.
LEMMA ReachableClosed ==
  ASSUME NEW roots, NEW available \in SUBSET Modules
  PROVE  /\ roots \subseteq available => roots \subseteq Reachable(roots, available)
         /\ \A m \in Reachable(roots, available), t \in available :
              <<m, t>> \in deps => t \in Reachable(roots, available)
<1>1. roots \subseteq available => roots \subseteq Reachable(roots, available)
  BY DEF Reachable
<1>2. ASSUME NEW m \in Reachable(roots, available), NEW t \in available, <<m, t>> \in deps
      PROVE  t \in Reachable(roots, available)
  <2> SUFFICES ASSUME NEW X \in SUBSET available, roots \subseteq X,
                      \A i \in X, n \in available : <<i, n>> \in deps => n \in X
               PROVE  t \in X
    BY <1>2 DEF Reachable
  <2>1. m \in X
    BY DEF Reachable
  <2> QED
    BY <1>2, <2>1
<1> QED
  BY <1>1, <1>2

-----------------------------------------------------------------------------
(* What the steps have in common *)

Quiet == phase \in {"initialization", "context", "projection"} \/ Settled

AfterContext ==
  phase \in {"emission", "collisions", "projection"} \/ Settled \/ resume = "projection"

\* A step that is neither a refusal pass nor the one that builds the value in
\* question only adds refusals of a module's own.
StepEffects ==
  /\ UNCHANGED request
  /\ \A m \in Modules : own[m] \subseteq own'[m]
  /\ \/ UNCHANGED inherited
     \/ \E importer, target \in Modules : PropagateRefusal(importer, target)
  /\ Quiet' => FinishPropagation \/ (Quiet /\ UNCHANGED refusals)
  /\ UNCHANGED candidate \/ PlanInitialization
  /\ Planned' => Planned \/ phase = "collisions" \/ PlanInitialization
  /\ PlannedBeforeEmission => PlannedBeforeEmission'
  /\ UNCHANGED context \/ OpenEmission
  /\ AfterContext' => AfterContext \/ OpenEmission
  /\ phase' = "emission" => phase = "emission" \/ OpenEmission
  /\ failure' # "non-closed-selection" \/ UNCHANGED failure \/ ProjectInitialization
  /\ Settled' => ProjectInitialization \/ (Settled /\ UNCHANGED <<refusals, initialization>>)
  /\ Settled => Settled' \/ phase' = "failed"
  /\ phase = "failed" => UNCHANGED vars
  /\ phase' = "failed" => UNCHANGED refusals

LEMMA EffectsOfSteps == TypeOK /\ [Next]_vars => StepEffects
<1> SUFFICES ASSUME TypeOK, [Next]_vars PROVE StepEffects
  OBVIOUS
<1> USE DEF request, refusals, results, Quiet, Settled, AfterContext, Planned,
            PlannedBeforeEmission, StepEffects
<1>0. own \in [Modules -> SUBSET Stages]
  BY DEF TypeOK
<1>1. ASSUME NEW broken \in SUBSET Modules, Lower(broken) PROVE StepEffects
  BY <1>0, <1>1 DEF Lower, Refuse, PropagateThen
<1>2. ASSUME NEW importer \in Modules, NEW target \in Modules,
             PropagateRefusal(importer, target)
      PROVE  StepEffects
  <2>1. UNCHANGED <<request, phase, resume, own, candidate, context, pending,
                    initialization, results, failure>> /\ phase = "propagation"
    BY <1>2 DEF PropagateRefusal
  <2> QED
    BY <1>0, <1>2, <2>1
<1>3. CASE FinishPropagation
  BY <1>0, <1>3 DEF FinishPropagation, TypeOK
<1>4. ASSUME NEW m \in Modules, RefuseInitialization(m) PROVE StepEffects
  BY <1>0, <1>4 DEF RefuseInitialization, Refuse, PropagateThen
<1>5. CASE PlanInitialization
  BY <1>0, <1>5 DEF PlanInitialization, PropagateThen
<1>6. CASE OpenEmission
  BY <1>0, <1>6 DEF OpenEmission
<1>7. ASSUME NEW m \in Modules, NEW list \in Outputs, EmitModule(m, list) PROVE StepEffects
  BY <1>0, <1>7 DEF EmitModule
<1>8. ASSUME NEW m \in Modules, RefuseEmission(m) PROVE StepEffects
  BY <1>0, <1>8 DEF RefuseEmission, Refuse
<1>9. CASE FinishEmission
  BY <1>0, <1>9 DEF FinishEmission
<1>10. CASE RefuseOutputCollisions
  BY <1>0, <1>10 DEF RefuseOutputCollisions, Refuse, PropagateThen
<1>11. CASE ProjectInitialization
  <2>1. /\ phase = "projection"
        /\ phase' \in {"failed", "finalization"}
        /\ UNCHANGED <<request, resume, refusals, files, candidate, context, pending, results>>
    BY <1>11 DEF ProjectInitialization, Fail
  <2> QED
    BY <1>0, <1>11, <2>1
<1>12. ASSUME NEW added \in SUBSET PackageFiles, NEW rename \in Renames,
              FinalizePackageGraph(added, rename)
       PROVE  StepEffects
  <2>1. /\ phase = "finalization"
        /\ phase' = "placeholders"
        /\ UNCHANGED <<request, resume, refusals, candidate, context, pending,
                       initialization, placeholders, failure>>
    BY <1>12 DEF FinalizePackageGraph
  <2> QED
    BY <1>0, <2>1
<1>13. CASE RejectReplacements
  BY <1>0, <1>13 DEF RejectReplacements, Fail
<1>14. ASSUME NEW path \in [PlaceholderModules -> Paths \cup {NoPath}], EmitPlaceholders(path)
       PROVE  StepEffects
  BY <1>0, <1>14 DEF EmitPlaceholders
<1>15. CASE Publish
  <2>1. /\ phase = "publication"
        /\ phase' \in {"failed", "done"}
        /\ failure' = "duplicate-emitted-path" \/ UNCHANGED failure
        /\ UNCHANGED <<request, resume, refusals, files, candidate, context, pending,
                       initialization, results>>
    BY <1>15 DEF Publish, Fail
  <2> QED
    BY <1>0, <2>1
<1>16. CASE BackendThrows
  BY <1>0, <1>16 DEF BackendThrows, Fail
<1>17. CASE UNCHANGED vars
  BY <1>0, <1>17 DEF vars
<1> QED
  BY <1>1, <1>2, <1>3, <1>4, <1>5, <1>6, <1>7, <1>8, <1>9, <1>10, <1>11,
     <1>12, <1>13, <1>14, <1>15, <1>16, <1>17 DEF Next

-----------------------------------------------------------------------------
(* The inductive invariant *)

LEMMA InitInvariant == Init => InductiveInvariant
<1> SUFFICES ASSUME Init PROVE InductiveInvariant
  OBVIOUS
<1>1. TypeOK
  BY InitTypeOK
<1>2. inherited = {} /\ candidate = {} /\ phase = "lowering" /\ resume = "initialization"
      /\ failure = "none"
  BY DEF Init, NoFailure
<1> QED
  BY <1>1, <1>2 DEF InductiveInvariant, RefusalsExplained, RefusalsClosed, InheritedHaveCause,
     CandidateClosed, CandidateHasEntries, Planned, PlannedBeforeEmission,
     ContextCoversEmittable, ContextClosed, ProjectionIsTotal, PlanMatchesSurvivors, Settled

\* Refusals only grow, so refused modules stay refused and available modules
\* were available before.
LEMMA RefusalsGrow ==
  ASSUME TypeOK, StepEffects
  PROVE  /\ inherited \subseteq inherited'
         /\ \A m \in Modules : OwnRefused(m) => OwnRefused(m)'
         /\ \A m \in Modules : Refused(m) => Refused(m)'
         /\ Available' \subseteq Available
         /\ \A m \in Modules : Emittable(m)' => Emittable(m)
<1>1. inherited \subseteq inherited'
  BY DEF StepEffects, PropagateRefusal
<1>2. \A m \in Modules : own[m] # {} => own'[m] # {}
  BY DEF StepEffects
<1>3. bestEffort' = bestEffort
  BY DEF StepEffects, request
<1> QED
  BY <1>1, <1>2, <1>3 DEF OwnRefused, Refused, Available, Emittable

LEMMA KeepsExplained ==
  ASSUME TypeOK, TypeOK', StepEffects, RefusalsExplained
  PROVE  RefusalsExplained'
<1>1. deps' = deps
  BY DEF StepEffects, request
<1>2. OwnSet \subseteq OwnSet' /\ OwnSet' \in SUBSET Modules /\ OwnSet \in SUBSET Modules
  BY RefusalsGrow DEF OwnSet
<1>3. Importers(OwnSet) \subseteq Importers(OwnSet')
  BY <1>2, ImportersMonotone
<1>4. Importers(OwnSet)' = Importers(OwnSet')
  BY <1>1 DEF Importers
<1>5. inherited \subseteq Importers(OwnSet)
  BY DEF RefusalsExplained, OwnSet
<1>6. inherited' \subseteq Importers(OwnSet')
  <2>1. CASE UNCHANGED inherited
    BY <2>1, <1>3, <1>5
  <2>2. ASSUME NEW importer \in Modules, NEW target \in Modules,
               PropagateRefusal(importer, target)
        PROVE  inherited' \subseteq Importers(OwnSet')
    <3>1. target \in inherited \/ target \in OwnSet
      BY <2>2 DEF PropagateRefusal, Refused, OwnSet
    <3>2. target \in Importers(OwnSet)
      BY <3>1, <1>2, <1>5, ImportersContain
    <3>3. importer \in Importers(OwnSet)
      BY <2>2, <3>2, ImportersStep DEF PropagateRefusal
    <3> QED
      BY <2>2, <3>3, <1>3, <1>5 DEF PropagateRefusal
  <2> QED
    BY <2>1, <2>2 DEF StepEffects
<1> QED
  BY <1>4, <1>6 DEF RefusalsExplained, OwnSet

LEMMA KeepsCause ==
  ASSUME TypeOK, StepEffects, InheritedHaveCause
  PROVE  InheritedHaveCause'
<1>1. deps' = deps
  BY DEF StepEffects, request
<1>2. ASSUME NEW m \in inherited' PROVE \E t \in Modules : <<m, t>> \in deps /\ Refused(t)
  BY <1>2 DEF StepEffects, PropagateRefusal, InheritedHaveCause
<1> QED
  BY <1>1, <1>2, RefusalsGrow DEF InheritedHaveCause

LEMMA KeepsClosed ==
  ASSUME TypeOK, StepEffects, RefusalsClosed
  PROVE  RefusalsClosed'
<1>1. deps' = deps
  BY DEF StepEffects, request
<1> SUFFICES ASSUME Quiet', NEW i \in Modules, NEW t \in Modules, <<i, t>> \in deps, Refused(t)'
             PROVE  Refused(i)'
  BY <1>1 DEF RefusalsClosed, Quiet
<1>2. CASE FinishPropagation
  BY <1>2 DEF FinishPropagation, Refused, OwnRefused, refusals
<1>3. CASE Quiet /\ UNCHANGED refusals
  BY <1>3 DEF RefusalsClosed, Quiet, Refused, OwnRefused, refusals
<1> QED
  BY <1>2, <1>3 DEF StepEffects

LEMMA KeepsCandidate ==
  ASSUME TypeOK, StepEffects, CandidateClosed, CandidateHasEntries, PlannedBeforeEmission
  PROVE  CandidateClosed' /\ CandidateHasEntries'
<1>1. deps' = deps /\ entries' = entries /\ Available' \subseteq Available
  BY RefusalsGrow DEF StepEffects, request
<1>2. CASE UNCHANGED candidate /\ (Planned' => Planned)
  BY <1>1, <1>2 DEF CandidateClosed, CandidateHasEntries
<1>3. CASE PlanInitialization
  <2>1. candidate' = Reachable(entries \cap Available, Available) /\ Available' = Available
    BY <1>3 DEF PlanInitialization, Plannable, refusals, Available, Refused, OwnRefused
  <2>2. Available \in SUBSET Modules
    BY DEF Available
  <2>3. /\ entries \cap Available \subseteq candidate'
        /\ \A m \in candidate', t \in Available : <<m, t>> \in deps => t \in candidate'
    BY <2>1, <2>2, ReachableClosed
  <2> QED
    BY <1>1, <2>1, <2>3 DEF CandidateClosed, CandidateHasEntries
<1> QED
  BY <1>2, <1>3 DEF StepEffects, PlannedBeforeEmission

LEMMA KeepsContext ==
  ASSUME TypeOK, StepEffects, RefusalsClosed, ContextCoversEmittable, ContextClosed
  PROVE  ContextCoversEmittable' /\ ContextClosed'
<1>1. deps' = deps /\ bestEffort' = bestEffort /\ \A m \in Modules : Emittable(m)' => Emittable(m)
  BY RefusalsGrow DEF StepEffects, request
<1>2. CASE OpenEmission
  <2>1. context' = {m \in Modules : Emittable(m)} /\ phase = "context"
    BY <1>2 DEF OpenEmission
  <2>2. \A i, t \in Modules : <<i, t>> \in deps /\ Refused(t) => Refused(i)
    BY <2>1 DEF RefusalsClosed
  <2>3. ContextCoversEmittable'
    BY <1>1, <2>1 DEF ContextCoversEmittable
  <2>4. ~bestEffort => \A m \in context', t \in Modules : <<m, t>> \in deps => t \in context'
    BY <2>1, <2>2 DEF Emittable
  <2> QED
    BY <1>1, <2>3, <2>4 DEF ContextClosed
<1>3. CASE ~OpenEmission
  <2>1. context' = context /\ (AfterContext' => AfterContext)
        /\ (phase' = "emission" => phase = "emission")
    BY <1>3 DEF StepEffects
  <2>2. ContextCoversEmittable'
    BY <1>1, <2>1 DEF ContextCoversEmittable, AfterContext
  <2>3. ContextClosed'
    BY <1>1, <2>1 DEF ContextClosed
  <2> QED
    BY <2>2, <2>3
<1> QED
  BY <1>2, <1>3

\* The two facts the projection rests on: the surviving part of the candidate
\* plan is closed under imports, and it is all that the survivors reach.
LEMMA RetainedIsClosed ==
  ASSUME TypeOK, phase = "projection", RefusalsClosed, CandidateClosed
  PROVE  ~ProjectionThrows
<1> SUFFICES ASSUME NEW m \in Retained, NEW t \in Modules, <<m, t>> \in deps
             PROVE  t \in Retained
  BY DEF ProjectionThrows
<1>1. m \in Modules /\ ~Refused(m) /\ m \in candidate
  BY DEF Retained, Available
<1>2. ~Refused(t)
  BY <1>1 DEF RefusalsClosed
<1> QED
  BY <1>1, <1>2 DEF Retained, Available, CandidateClosed

LEMMA RetainedIsPlan ==
  ASSUME TypeOK, CandidateClosed, entries \cap Available \subseteq candidate
  PROVE  Reachable(entries \cap Retained, Retained) = Reachable(entries \cap Available, Available)
<1>1. Available \in SUBSET Modules /\ Retained \in SUBSET Available
  BY DEF Available, Retained
<1>2. entries \cap Retained = entries \cap Available
  BY DEF Retained
<1>3. \A i \in Retained, t \in Available : <<i, t>> \in deps => t \in Retained
  BY DEF CandidateClosed, Retained
<1>4. entries \cap Available \subseteq Retained
  BY <1>2
<1> QED
  BY <1>1, <1>2, <1>3, <1>4, ReachableWithinClosedSet

LEMMA KeepsPlan ==
  ASSUME TypeOK, StepEffects, RefusalsClosed, CandidateClosed, CandidateHasEntries,
         PlannedBeforeEmission, ProjectionIsTotal, PlanMatchesSurvivors
  PROVE  ProjectionIsTotal' /\ PlanMatchesSurvivors'
<1>1. deps' = deps /\ entries' = entries
  BY DEF StepEffects, request
<1>2. CASE ProjectInitialization
  <2>1. phase = "projection" /\ UNCHANGED refusals
    BY <1>2 DEF ProjectInitialization
  <2>2. ~ProjectionThrows
    BY <2>1, RetainedIsClosed
  <2>3. failure' = failure /\ initialization' = Reachable(entries \cap Retained, Retained)
    BY <1>2, <2>2 DEF ProjectInitialization
  <2>4. initialization' = Reachable(entries \cap Available, Available)
    BY <2>1, <2>3, RetainedIsPlan DEF PlannedBeforeEmission, CandidateHasEntries
  <2>5. Available' = Available
    BY <2>1 DEF Available, Refused, OwnRefused, refusals
  <2>6. Reachable(entries \cap Available, Available)' = Reachable(entries \cap Available, Available)
    BY <1>1, <2>5 DEF Reachable
  <2> QED
    BY <2>3, <2>4, <2>6 DEF ProjectionIsTotal, PlanMatchesSurvivors
<1>3. CASE ~ProjectInitialization
  <2>1. ProjectionIsTotal'
    BY <1>3 DEF StepEffects, ProjectionIsTotal
  <2>2. ASSUME Settled' PROVE initialization' = Reachable(entries \cap Available, Available)'
    <3>1. Settled /\ UNCHANGED <<refusals, initialization>>
      BY <1>3, <2>2 DEF StepEffects
    <3>2. Available' = Available
      BY <3>1 DEF Available, Refused, OwnRefused, refusals
    <3>3. Reachable(entries \cap Available, Available)' = Reachable(entries \cap Available, Available)
      BY <1>1, <3>2 DEF Reachable
    <3> QED
      BY <3>1, <3>3 DEF PlanMatchesSurvivors
  <2> QED
    BY <2>1, <2>2 DEF PlanMatchesSurvivors
<1> QED
  BY <1>2, <1>3

LEMMA NextInvariant == InductiveInvariant /\ [Next]_vars => InductiveInvariant'
<1> SUFFICES ASSUME InductiveInvariant, [Next]_vars PROVE InductiveInvariant'
  OBVIOUS
<1> USE DEF InductiveInvariant
<1>1. TypeOK' /\ StepEffects
  BY NextTypeOK, EffectsOfSteps
<1>2. RefusalsExplained'
  BY <1>1, KeepsExplained
<1>3. RefusalsClosed' /\ InheritedHaveCause'
  BY <1>1, KeepsClosed, KeepsCause
<1>4. CandidateClosed' /\ CandidateHasEntries'
  BY <1>1, KeepsCandidate
<1>5. PlannedBeforeEmission'
  BY <1>1 DEF StepEffects
<1>6. ContextCoversEmittable' /\ ContextClosed'
  BY <1>1, KeepsContext
<1>7. ProjectionIsTotal' /\ PlanMatchesSurvivors'
  BY <1>1, KeepsPlan
<1> QED
  BY <1>1, <1>2, <1>3, <1>4, <1>5, <1>6, <1>7

\* The parts of the invariant hold together in every reachable state.
THEOREM Invariance == Spec => []InductiveInvariant
BY InitInvariant, NextInvariant, PTL DEF Spec

-----------------------------------------------------------------------------
(* What follows for the results *)

\* Every inherited refusal leads to a module refused for reasons of its own, so
\* a cycle of imports never refuses itself.
THEOREM ExplainedRefusals == Spec => []RefusalsExplained
BY Invariance, PTL DEF InductiveInvariant

LEMMA ClosureFromInvariant == InductiveInvariant => RefusalsAreClosure
<1> SUFFICES ASSUME InductiveInvariant, Settled
             PROVE  Modules \ Available = Importers(OwnSet)
  BY DEF RefusalsAreClosure, OwnSet
<1> USE DEF InductiveInvariant
<1>1. OwnSet \in SUBSET Modules /\ OwnSet \subseteq Modules \ Available
  BY DEF OwnSet, Available, Refused
<1>2. \A i \in Modules, t \in Modules \ Available : <<i, t>> \in deps => i \in Modules \ Available
  BY DEF RefusalsClosed, Available
<1>3. Importers(OwnSet) \subseteq Modules \ Available
  BY <1>1, <1>2, ImportersLeast
<1>4. Modules \ Available \subseteq OwnSet \cup inherited
  BY DEF Available, Refused, OwnSet
<1>5. Modules \ Available \subseteq Importers(OwnSet)
  BY <1>1, <1>4, ImportersContain DEF RefusalsExplained, OwnSet
<1> QED
  BY <1>3, <1>5

\* The refused modules of a result are the importers of the modules refused for
\* reasons of their own: the order of the propagation scan does not matter.
THEOREM RefusalClosure == Spec => []RefusalsAreClosure
BY Invariance, ClosureFromInvariant, PTL

\* Every inherited refusal of a result lists a refused import.
THEOREM AttributedRefusals == Spec => []InheritedRefusalsAttributed
<1>1. InductiveInvariant => InheritedRefusalsAttributed
  BY DEF InductiveInvariant, InheritedHaveCause, InheritedRefusalsAttributed, RefusedDependencies
<1> QED
  BY Invariance, <1>1, PTL

\* The projection of the evaluation plan never throws, whatever was refused
\* between planning and projection.
THEOREM TotalProjection == Spec => []ProjectionIsTotal
BY Invariance, PTL DEF InductiveInvariant

\* The projected plan is the plan of the surviving modules.
THEOREM SurvivorsPlan == Spec => []PlanMatchesSurvivors
BY Invariance, PTL DEF InductiveInvariant

\* A strict emission context holds every import of its modules.
THEOREM ClosedContext == Spec => []ContextClosed
BY Invariance, PTL DEF InductiveInvariant

\* What a result publishes was in the emission context.
THEOREM EmittedSurvivors == Spec => []SurvivorsWereEmitted
<1>1. InductiveInvariant => SurvivorsWereEmitted
  BY DEF InductiveInvariant, ContextCoversEmittable, SurvivorsWereEmitted, Surviving
<1> QED
  BY Invariance, <1>1, PTL

\* The selected output of a strict run is closed under imports.
THEOREM ClosedStrictOutput == Spec => []StrictOutputClosed
<1>1. InductiveInvariant => StrictOutputClosed
  BY DEF InductiveInvariant, RefusalsClosed, Settled, StrictOutputClosed, Surviving, Emittable
<1> QED
  BY Invariance, <1>1, PTL

-----------------------------------------------------------------------------
(* The compilation implements PackageVerdict *)

VerdictOfRun ==
  CASE phase = "failed" -> [status |-> "failed"]
    [] Settled -> [status   |-> "settled",
                   refused  |-> Modules \ Available,
                   written  |-> Surviving,
                   runnable |-> initialization]
    [] OTHER -> [status |-> "open"]

VerdictFacts ==
  /\ phase = "failed" => VerdictOfRun = Verdict!Failed
  /\ Settled => VerdictOfRun = [status   |-> "settled",
                                refused  |-> Modules \ Available,
                                written  |-> Surviving,
                                runnable |-> initialization]
  /\ phase # "failed" /\ ~Settled => VerdictOfRun = Verdict!Open

LEMMA VerdictValues == VerdictFacts /\ VerdictFacts'
BY DEF VerdictFacts, VerdictOfRun, Settled, Verdict!Failed, Verdict!Open

LEMMA SameImporters ==
  ASSUME TypeOK
  PROVE  Importers(OwnSet) = Verdict!ImportersOf(OwnSet)
<1>1. ASSUME NEW X \in SUBSET Modules
      PROVE  (\A i \in Modules, t \in X : <<i, t>> \in deps => i \in X)
               <=> (\A e \in deps : e[2] \in X => e[1] \in X)
  BY DEF TypeOK
<1> QED
  BY <1>1 DEF Importers, Verdict!ImportersOf

LEMMA SameRunnable ==
  ASSUME TypeOK
  PROVE  Reachable(entries \cap Available, Available)
           = Verdict!RunnableWithout(Modules \ Available)
<1> DEFINE refused == Modules \ Available
           Spreads(X) == \A e \in deps : e[1] \in X /\ e[2] \notin refused => e[2] \in X
           SpreadsWithin(X) == \A i \in X, t \in Available : <<i, t>> \in deps => t \in X
<1>1. Available \in SUBSET Modules /\ entries \cap Available = entries \ refused
  BY DEF Available, TypeOK
<1>2. ASSUME NEW m \in Reachable(entries \cap Available, Available)
      PROVE  m \in Verdict!RunnableWithout(refused)
  <2> SUFFICES ASSUME NEW X \in SUBSET Modules, entries \ refused \subseteq X, Spreads(X)
               PROVE  m \in X
    BY <1>1 DEF Verdict!RunnableWithout, Reachable
  <2>1. SpreadsWithin(X \cap Available)
    BY <1>1
  <2>2. m \in X \cap Available
    BY <1>1, <2>1 DEF Reachable
  <2> QED
    BY <2>2
<1>3. ASSUME NEW m \in Verdict!RunnableWithout(refused)
      PROVE  m \in Reachable(entries \cap Available, Available)
  <2>1. ASSUME NEW X \in SUBSET Available, entries \cap Available \subseteq X, SpreadsWithin(X)
        PROVE  m \in X
    <3>1. Spreads(X)
      BY <2>1, <1>1 DEF TypeOK
    <3> QED
      BY <1>1, <2>1, <3>1 DEF Verdict!RunnableWithout
  <2>2. m \in Available
    BY <2>1
  <2> QED
    BY <2>1, <2>2 DEF Reachable
<1> QED
  BY <1>2, <1>3

LEMMA InitRefines == Init => Verdict!Init
<1> SUFFICES ASSUME Init PROVE Verdict!Init
  OBVIOUS
<1>1. {m \in Modules : OwnRefused(m)} = {}
  BY DEF Init, OwnRefused
<1>2. VerdictOfRun = Verdict!Open
  BY VerdictValues DEF VerdictFacts, Init, Settled
<1> QED
  BY <1>1, <1>2 DEF Init, Verdict!Init, VerdictOfRun

\* One abstract step for each kind of step: a verdict is given by
\* ProjectInitialization, withdrawn by a failure, and left alone once given;
\* every other step blames the modules it refused.
LEMMA StepRefines ==
  ASSUME InductiveInvariant, InductiveInvariant', RefusalsAreClosure', [Next]_vars
  PROVE  [Verdict!Next]_(Verdict!vars)
<1> USE DEF InductiveInvariant
<1>0. StepEffects
  BY EffectsOfSteps
<1>1. deps' = deps /\ entries' = entries /\ selected' = selected /\ bestEffort' = bestEffort
  BY <1>0 DEF StepEffects, request
<1>2. OwnSet \in SUBSET Modules /\ OwnSet' \in SUBSET Modules /\ OwnSet \subseteq OwnSet'
  BY <1>0, RefusalsGrow DEF OwnSet
<1>3. ASSUME UNCHANGED refusals
      PROVE  OwnSet' = OwnSet /\ Available' = Available /\ Surviving' = Surviving
  BY <1>1, <1>3 DEF OwnSet, Available, Surviving, Emittable, Refused, OwnRefused, refusals, Selected
<1>4. CASE phase = "failed"
  <2>1. UNCHANGED vars
    BY <1>0, <1>4 DEF StepEffects
  <2>2. VerdictOfRun' = VerdictOfRun /\ OwnSet' = OwnSet
    BY <2>1, <1>3 DEF VerdictOfRun, vars, Settled, refusals
  <2> QED
    BY <1>1, <2>2 DEF Verdict!vars, VerdictOfRun, OwnSet
<1>5. CASE phase # "failed" /\ phase' = "failed"
  <2>1. OwnSet' = OwnSet
    BY <1>0, <1>3, <1>5 DEF StepEffects
  <2>2. VerdictOfRun' = Verdict!Failed
    BY <1>5, VerdictValues DEF VerdictFacts
  <2>3. VerdictOfRun # Verdict!Failed
    BY <1>5, VerdictValues DEF VerdictFacts, Verdict!Failed, Verdict!Open
  <2>4. Verdict!Abort
    BY <1>1, <2>1, <2>2, <2>3 DEF Verdict!Abort, VerdictOfRun, OwnSet
  <2> QED
    BY <2>4 DEF Verdict!Next
<1>6. CASE phase # "failed" /\ phase' # "failed" /\ Settled
  <2>1. Settled' /\ UNCHANGED <<refusals, initialization>>
    BY <1>0, <1>6 DEF StepEffects, ProjectInitialization, Settled
  <2>2. VerdictOfRun' = VerdictOfRun /\ OwnSet' = OwnSet
    BY <1>3, <1>6, <2>1 DEF VerdictOfRun
  <2> QED
    BY <1>1, <2>2 DEF Verdict!vars, VerdictOfRun, OwnSet
<1>7. CASE phase # "failed" /\ phase' # "failed" /\ ~Settled /\ Settled'
  <2>1. UNCHANGED refusals
    BY <1>0, <1>7 DEF StepEffects, ProjectInitialization
  <2>2. Modules \ Available' = Verdict!ImportersOf(OwnSet)
    <3>1. (Modules \ Available)' = Importers(OwnSet)'
      BY <1>7, <1>1 DEF RefusalsAreClosure, OwnSet
    <3>2. Importers(OwnSet)' = Importers(OwnSet)
      BY <1>1, <1>3, <2>1 DEF Importers
    <3> QED
      BY <3>1, <3>2, SameImporters
  <2>3. initialization' = Verdict!RunnableWithout(Modules \ Available)
    <3>1. initialization' = Reachable(entries \cap Available, Available)'
      BY <1>7 DEF PlanMatchesSurvivors
    <3>2. Reachable(entries \cap Available, Available)' = Reachable(entries \cap Available, Available)
      BY <1>1, <1>3, <2>1 DEF Reachable
    <3> QED
      BY <3>1, <3>2, SameRunnable
  <2>4. Surviving' = selected \ (IF bestEffort THEN OwnSet ELSE Modules \ Available)
    BY <1>3, <2>1 DEF TypeOK, Surviving, Selected, Emittable, OwnSet, Available
  <2>5. VerdictOfRun = Verdict!Open
    BY <1>7, VerdictValues DEF VerdictFacts
  <2>6. VerdictOfRun' = [status   |-> "settled",
                         refused  |-> Modules \ Available',
                         written  |-> Surviving',
                         runnable |-> initialization']
    BY <1>7, VerdictValues DEF VerdictFacts
  <2>7. Verdict!Settle
    BY <1>1, <1>3, <2>1, <2>2, <2>3, <2>4, <2>5, <2>6 DEF Verdict!Settle, VerdictOfRun, OwnSet
  <2> QED
    BY <2>7 DEF Verdict!Next
<1>8. CASE phase # "failed" /\ phase' # "failed" /\ ~Settled /\ ~Settled'
  <2>1. VerdictOfRun = Verdict!Open /\ VerdictOfRun' = Verdict!Open
    BY <1>8, VerdictValues DEF VerdictFacts
  <2>2. OwnSet' = OwnSet \cup OwnSet'
    BY <1>2
  <2>3. Verdict!Blame(OwnSet')
    BY <1>1, <2>1, <2>2 DEF Verdict!Blame, VerdictOfRun, OwnSet
  <2> QED
    BY <1>2, <2>3 DEF Verdict!Next
<1> QED
  BY <1>4, <1>5, <1>6, <1>7, <1>8

\* Whatever the order of its passes and the behaviour of its backend, the
\* compilation gives one verdict, determined by the modules refused for reasons
\* of their own, the imports and the mode.
THEOREM Refinement == Spec => ImplementsVerdict
<1>1. Init => Verdict!Init
  BY InitRefines
<1>2. InductiveInvariant /\ InductiveInvariant' /\ RefusalsAreClosure' /\ [Next]_vars
        => [Verdict!Next]_(Verdict!vars)
  BY StepRefines
<1> QED
  BY Invariance, RefusalClosure, <1>1, <1>2, PTL DEF Spec, ImplementsVerdict, Verdict!Spec

-----------------------------------------------------------------------------
(* The files of the records *)

BeforeEmission ==
  \/ phase \in {"lowering", "initialization", "context"}
  \/ phase = "propagation" /\ resume # "projection"

\* Behind the collision check, until the backend replaces the files.
AfterCollisions ==
  \/ phase = "propagation" /\ resume = "projection"
  \/ phase \in {"projection", "finalization"}
  \/ phase \in {"placeholders", "publication", "done"} /\ ~replaced

NothingEmittedYet == BeforeEmission => pending = {} /\ \A m \in Modules : files[m] = {}

\* What the loop has not reached has no files and may still be emitted.
PendingAreEmittable ==
  \A m \in pending :
    phase \in {"emission", "failed"} /\ Selected(m) /\ Emittable(m) /\ files[m] = {}

FilesAreEmittable == \A m \in Modules : files[m] # {} => Selected(m) /\ Emittable(m)

FilesAreDistinct ==
  AfterCollisions =>
    \A m, n \in Available : \A f \in files[m], g \in files[n] : ~Collides(m, f, n, g)

StrictHasNoPlaceholders == ~bestEffort => \A m \in Modules : placeholders[m] = NoPath

AllOutput == ModuleOutput(Modules) \cup PlaceholderOutput \cup PackageOutput

BackendFilesWereChecked ==
  phase = "done" /\ (packageFiles # {} \/ replaced) => ~PathsCollide(AllOutput)

FilesInvariant ==
  /\ NothingEmittedYet
  /\ PendingAreEmittable
  /\ FilesAreEmittable
  /\ FilesAreDistinct
  /\ StrictHasNoPlaceholders
  /\ BackendFilesWereChecked

LEMMA InitFiles == Init => FilesInvariant
BY DEF Init, FilesInvariant, NothingEmittedYet, PendingAreEmittable, FilesAreEmittable,
   FilesAreDistinct, AfterCollisions, StrictHasNoPlaceholders, BackendFilesWereChecked

\* A step that leaves the records and the results alone, and does not move to
\* where more is asked of them.
LEMMA QuietStepKeepsFiles ==
  ASSUME FilesInvariant, UNCHANGED <<request, refusals, files, pending, results>>,
         BeforeEmission' => BeforeEmission,
         AfterCollisions' => AfterCollisions,
         phase' = phase \/ pending = {} \/ phase' = "failed",
         phase' # "done"
  PROVE  FilesInvariant'
<1> USE DEF FilesInvariant, request, refusals, results
<1>1. \A m \in Modules : Emittable(m)' = Emittable(m)
  BY DEF Emittable, Refused, OwnRefused
<1>2. Available' = Available
  BY DEF Available, Refused, OwnRefused
<1>3. NothingEmittedYet'
  BY DEF NothingEmittedYet
<1>4. PendingAreEmittable'
  BY DEF PendingAreEmittable, Selected, Emittable, Refused, OwnRefused
<1>5. FilesAreEmittable'
  BY <1>1 DEF FilesAreEmittable, Selected
<1>6. FilesAreDistinct'
  BY <1>2 DEF FilesAreDistinct, Collides, Key
<1>7. StrictHasNoPlaceholders'
  BY DEF StrictHasNoPlaceholders
<1>8. BackendFilesWereChecked'
  BY DEF BackendFilesWereChecked
<1> QED
  BY <1>3, <1>4, <1>5, <1>6, <1>7, <1>8

\* Refusing modules and dropping their files, outside the emission loop.
LEMMA RefusalKeepsFiles ==
  ASSUME TypeOK, FilesInvariant, NEW broken \in SUBSET Modules,
         UNCHANGED <<request, pending, results>>, pending = {},
         \A m \in Modules \ broken : own'[m] = own[m] /\ (m \in inherited <=> m \in inherited'),
         \A m \in Modules : files'[m] = IF m \in broken THEN {} ELSE files[m],
         BeforeEmission' => BeforeEmission,
         AfterCollisions' => AfterCollisions /\ Available' \subseteq Available,
         phase' # "done"
  PROVE  FilesInvariant'
<1> USE DEF FilesInvariant, request, results
<1>1. \A m \in Modules \ broken : Emittable(m)' = Emittable(m)
  BY DEF Emittable, Refused, OwnRefused
<1>2. NothingEmittedYet'
  BY DEF NothingEmittedYet
<1>3. PendingAreEmittable'
  BY DEF PendingAreEmittable
<1>4. FilesAreEmittable'
  BY <1>1 DEF FilesAreEmittable, Selected
<1>5. FilesAreDistinct'
  <2>1. \A m \in Available : files'[m] \subseteq files[m]
    BY DEF Available
  <2> QED
    BY <2>1 DEF FilesAreDistinct, Collides, Key
<1>6. StrictHasNoPlaceholders'
  BY DEF StrictHasNoPlaceholders
<1>7. BackendFilesWereChecked'
  BY DEF BackendFilesWereChecked
<1> QED
  BY <1>2, <1>3, <1>4, <1>5, <1>6, <1>7

LEMMA CollisionsKeepFiles ==
  ASSUME TypeOK, FilesInvariant, RefuseOutputCollisions
  PROVE  FilesInvariant'
<1> USE DEF FilesInvariant, request, results
<1>1. /\ phase = "collisions" /\ phase' = "propagation" /\ resume' = "projection"
      /\ UNCHANGED <<request, inherited, pending, results>>
      /\ \A m \in Modules : files'[m] = IF m \in Colliding THEN {} ELSE files[m]
      /\ \A m \in Modules : own'[m] = IF m \in Colliding THEN own[m] \cup {"emission"} ELSE own[m]
  BY DEF RefuseOutputCollisions, Refuse, DropFiles, PropagateThen
<1>2. pending = {}
  BY <1>1 DEF PendingAreEmittable
<1>3. NothingEmittedYet' /\ PendingAreEmittable' /\ StrictHasNoPlaceholders' /\ BackendFilesWereChecked'
  BY <1>1, <1>2 DEF NothingEmittedYet, BeforeEmission, PendingAreEmittable,
     StrictHasNoPlaceholders, BackendFilesWereChecked
<1>4. FilesAreEmittable'
  <2>1. \A m \in Modules \ Colliding : Emittable(m)' = Emittable(m)
    BY <1>1 DEF Emittable, Refused, OwnRefused
  <2> QED
    BY <1>1, <2>1 DEF FilesAreEmittable, Selected
<1>5. FilesAreDistinct'
  <2>1. \A m \in Available' : m \in Available /\ m \notin Colliding
    BY <1>1 DEF Available, Refused, OwnRefused
  <2>2. ASSUME NEW m \in Available', NEW n \in Available', NEW f \in files'[m], NEW g \in files'[n]
        PROVE  ~Collides(m, f, n, g)
    <3>1. /\ m \in Available /\ n \in Available /\ m \notin Colliding
          /\ f \in files[m] /\ g \in files[n]
      BY <1>1, <2>1, <2>2 DEF Available
    <3> QED
      BY <3>1 DEF Colliding
  <2> QED
    BY <2>2 DEF FilesAreDistinct, Collides, Key
<1> QED
  BY <1>3, <1>4, <1>5

LEMMA EmissionKeepsFiles ==
  ASSUME TypeOK, FilesInvariant, NEW m \in Modules,
         (\E list \in Outputs : EmitModule(m, list)) \/ RefuseEmission(m)
  PROVE  FilesInvariant'
<1> USE DEF FilesInvariant, request, refusals, results
<1>1. /\ phase = "emission" /\ phase' = phase /\ resume' = resume
      /\ m \in pending /\ pending' = pending \ {m}
      /\ UNCHANGED <<request, inherited, results>>
      /\ \A n \in Modules \ {m} : own'[n] = own[n] /\ files'[n] = files[n]
      /\ own' = own \/ files' = files
  BY DEF EmitModule, RefuseEmission, Refuse, TypeOK
<1>2. Selected(m) /\ Emittable(m) /\ files[m] = {}
  BY <1>1 DEF PendingAreEmittable
<1>3. \A n \in Modules \ {m} : Emittable(n)' = Emittable(n)
  BY <1>1 DEF Emittable, Refused, OwnRefused
<1>4. NothingEmittedYet' /\ StrictHasNoPlaceholders' /\ BackendFilesWereChecked' /\ FilesAreDistinct'
  BY <1>1 DEF NothingEmittedYet, BeforeEmission, StrictHasNoPlaceholders, BackendFilesWereChecked,
     FilesAreDistinct, AfterCollisions
<1>5. PendingAreEmittable'
  <2>1. pending \in SUBSET Modules
    BY DEF TypeOK
  <2>2. ASSUME NEW n \in pending' PROVE Selected(n)' /\ Emittable(n)' /\ files'[n] = {}
    <3>1. n \in pending /\ n \in Modules \ {m}
      BY <1>1, <2>1, <2>2
    <3> QED
      BY <1>1, <1>3, <3>1 DEF PendingAreEmittable, Selected
  <2> QED
    BY <1>1, <2>2 DEF PendingAreEmittable
<1>6. FilesAreEmittable'
  <2>1. CASE own' = own
    BY <1>1, <1>2, <2>1 DEF FilesAreEmittable, Selected, Emittable, Refused, OwnRefused
  <2>2. CASE files' = files
    BY <1>1, <1>2, <1>3, <2>2 DEF FilesAreEmittable, Selected
  <2> QED
    BY <1>1, <2>1, <2>2
<1> QED
  BY <1>4, <1>5, <1>6

LEMMA FinalizationKeepsFiles ==
  ASSUME TypeOK, FilesInvariant, NEW added \in SUBSET PackageFiles, NEW rename \in Renames,
         FinalizePackageGraph(added, rename)
  PROVE  FilesInvariant'
<1> USE DEF FilesInvariant, request, refusals
<1>1. /\ phase = "finalization" /\ phase' = "placeholders"
      /\ UNCHANGED <<request, resume, refusals, pending, placeholders>>
      /\ (replaced' = FALSE /\ files' = files)
         \/ (replaced' = TRUE /\ \A m \in Modules : files'[m] # {} => files[m] # {})
  BY DEF FinalizePackageGraph
<1>2. pending = {}
  BY <1>1 DEF PendingAreEmittable
<1>3. NothingEmittedYet' /\ PendingAreEmittable' /\ StrictHasNoPlaceholders' /\ BackendFilesWereChecked'
  BY <1>1, <1>2 DEF NothingEmittedYet, BeforeEmission, PendingAreEmittable,
     StrictHasNoPlaceholders, BackendFilesWereChecked
<1>4. \A m \in Modules : files'[m] # {} => files[m] # {}
  BY <1>1
<1>5. FilesAreEmittable'
  BY <1>1, <1>4 DEF FilesAreEmittable, Selected, Emittable, Refused, OwnRefused
<1>6. FilesAreDistinct'
  <2>1. CASE replaced' = TRUE
    BY <1>1, <2>1 DEF FilesAreDistinct, AfterCollisions
  <2>2. CASE files' = files
    BY <1>1, <2>2 DEF FilesAreDistinct, AfterCollisions, Available, Refused, OwnRefused, Collides, Key
  <2> QED
    BY <1>1, <2>1, <2>2
<1> QED
  BY <1>3, <1>5, <1>6

\* The last step of a run: the check it makes covers what it publishes.
LEMMA PublicationKeepsFiles ==
  ASSUME TypeOK, FilesInvariant, Publish
  PROVE  FilesInvariant'
<1> USE DEF FilesInvariant, request, refusals, results
<1>1. /\ phase = "publication" /\ phase' \in {"done", "failed"}
      /\ UNCHANGED <<request, resume, refusals, files, pending, results>>
      /\ phase' = "done" /\ (packageFiles # {} \/ replaced) => ~PathsCollide(AllOutput)
  BY DEF Publish, Fail, AllOutput
<1>2. pending = {}
  BY <1>1 DEF PendingAreEmittable
<1>3. /\ NothingEmittedYet' /\ PendingAreEmittable' /\ FilesAreEmittable' /\ StrictHasNoPlaceholders'
  BY <1>1, <1>2 DEF NothingEmittedYet, BeforeEmission, PendingAreEmittable, FilesAreEmittable,
     Selected, Emittable, Refused, OwnRefused, StrictHasNoPlaceholders
<1>4. FilesAreDistinct'
  BY <1>1 DEF FilesAreDistinct, AfterCollisions, Available, Refused, OwnRefused, Collides, Key
<1>5. BackendFilesWereChecked'
  <2>1. PathsCollide(AllOutput)' = PathsCollide(AllOutput)
    BY <1>1 DEF PathsCollide, AllOutput, ModuleOutput, PlaceholderOutput, PackageOutput
  <2> QED
    BY <1>1, <2>1 DEF BackendFilesWereChecked
<1> QED
  BY <1>3, <1>4, <1>5

LEMMA NextFiles == TypeOK /\ FilesInvariant /\ [Next]_vars => FilesInvariant'
<1> SUFFICES ASSUME TypeOK, FilesInvariant, [Next]_vars PROVE FilesInvariant'
  OBVIOUS
<1> USE DEF request, refusals, results, BeforeEmission, AfterCollisions
<1>0. pending # {} => phase \in {"emission", "failed"}
  BY DEF FilesInvariant, PendingAreEmittable
<1>1. ASSUME NEW broken \in SUBSET Modules, Lower(broken) PROVE FilesInvariant'
  <2>1. \A m \in Modules : files[m] = {}
    BY <1>1 DEF Lower, FilesInvariant, NothingEmittedYet
  <2>2. \A m \in Modules \ broken : own'[m] = own[m]
    BY <1>1 DEF Lower, Refuse
  <2> QED
    BY <1>0, <1>1, <2>1, <2>2, RefusalKeepsFiles DEF Lower, PropagateThen
<1>2. ASSUME NEW importer \in Modules, NEW target \in Modules,
             PropagateRefusal(importer, target)
      PROVE  FilesInvariant'
  <2>1. /\ phase = "propagation" /\ ~Refused(importer)
        /\ inherited' = inherited \cup {importer}
        /\ files' = files \/ files' = [m \in Modules |-> IF m \in {importer} THEN {} ELSE files[m]]
        /\ bestEffort => files' = files
        /\ ~bestEffort => files' = [m \in Modules |-> IF m \in {importer} THEN {} ELSE files[m]]
        /\ UNCHANGED <<request, phase, resume, own, candidate, context, pending,
                       initialization, results, failure>>
    BY <1>2 DEF PropagateRefusal, DropFiles
  <2>2. Available' \subseteq Available
    BY <2>1 DEF Available, Refused, OwnRefused
  <2>3. CASE ~bestEffort
    BY <1>0, <2>1, <2>2, <2>3, RefusalKeepsFiles
  <2>4. CASE bestEffort
    <3>1. \A m \in Modules : Emittable(m)' = Emittable(m)
      BY <2>1, <2>4 DEF Emittable, OwnRefused
    <3>2. pending = {}
      BY <1>0, <2>1
    <3>3. NothingEmittedYet' /\ PendingAreEmittable' /\ StrictHasNoPlaceholders'
          /\ BackendFilesWereChecked'
      BY <2>1, <2>4, <3>2 DEF FilesInvariant, NothingEmittedYet, PendingAreEmittable,
         StrictHasNoPlaceholders, BackendFilesWereChecked
    <3>4. FilesAreEmittable'
      BY <2>1, <2>4, <3>1 DEF FilesInvariant, FilesAreEmittable, Selected
    <3>5. FilesAreDistinct'
      BY <2>1, <2>2, <2>4 DEF FilesInvariant, FilesAreDistinct, Collides, Key
    <3> QED
      BY <3>3, <3>4, <3>5 DEF FilesInvariant
  <2>5. bestEffort \in BOOLEAN
    BY DEF TypeOK
  <2> QED
    BY <2>3, <2>4, <2>5
<1>3. CASE FinishPropagation
  BY <1>0, <1>3, QuietStepKeepsFiles DEF FinishPropagation, TypeOK
<1>4. ASSUME NEW m \in Modules, RefuseInitialization(m) PROVE FilesInvariant'
  <2>1. /\ \A n \in Modules \ {m} : own'[n] = own[n]
        /\ \A n \in Modules : files'[n] = IF n \in {m} THEN {} ELSE files[n]
        /\ phase = "initialization" /\ phase' = "propagation" /\ resume' = "initialization"
        /\ UNCHANGED <<request, inherited, pending, results>>
    BY <1>4 DEF RefuseInitialization, Refuse, DropFiles, PropagateThen
  <2> QED
    BY <1>0, <2>1, RefusalKeepsFiles
<1>5. CASE PlanInitialization
  BY <1>0, <1>5, QuietStepKeepsFiles DEF PlanInitialization, PropagateThen
<1>6. CASE OpenEmission
  <2>1. /\ phase = "context" /\ phase' = "emission"
        /\ pending' = {m \in Modules : Emittable(m) /\ Selected(m)}
        /\ UNCHANGED <<request, refusals, files, results>>
    BY <1>6 DEF OpenEmission
  <2>2. \A m \in Modules : files[m] = {}
    BY <2>1 DEF FilesInvariant, NothingEmittedYet
  <2>3. PendingAreEmittable'
    BY <2>1, <2>2 DEF PendingAreEmittable, Selected, Emittable, Refused, OwnRefused
  <2>4. NothingEmittedYet' /\ FilesAreEmittable' /\ FilesAreDistinct' /\ StrictHasNoPlaceholders'
        /\ BackendFilesWereChecked'
    BY <2>1, <2>2 DEF FilesInvariant, NothingEmittedYet, FilesAreEmittable, FilesAreDistinct,
       StrictHasNoPlaceholders, BackendFilesWereChecked
  <2> QED
    BY <2>3, <2>4 DEF FilesInvariant
<1>7. ASSUME NEW m \in Modules, NEW list \in Outputs, EmitModule(m, list) PROVE FilesInvariant'
  BY <1>7, EmissionKeepsFiles
<1>8. ASSUME NEW m \in Modules, RefuseEmission(m) PROVE FilesInvariant'
  BY <1>8, EmissionKeepsFiles
<1>9. CASE FinishEmission
  BY <1>9, QuietStepKeepsFiles DEF FinishEmission
<1>10. CASE RefuseOutputCollisions
  BY <1>10, CollisionsKeepFiles
<1>11. CASE ProjectInitialization
  <2>1. /\ phase = "projection"
        /\ phase' \in {"failed", "finalization"}
        /\ UNCHANGED <<request, resume, refusals, files, candidate, context, pending, results>>
    BY <1>11 DEF ProjectInitialization, Fail
  <2> QED
    BY <1>0, <2>1, QuietStepKeepsFiles
<1>12. ASSUME NEW added \in SUBSET PackageFiles, NEW rename \in Renames,
              FinalizePackageGraph(added, rename)
       PROVE  FilesInvariant'
  BY <1>12, FinalizationKeepsFiles
<1>13. CASE RejectReplacements
  BY <1>0, <1>13, QuietStepKeepsFiles DEF RejectReplacements, Fail
<1>14. ASSUME NEW path \in [PlaceholderModules -> Paths \cup {NoPath}], EmitPlaceholders(path)
       PROVE  FilesInvariant'
  <2>1. /\ phase = "placeholders" /\ phase' = "publication"
        /\ placeholders' = [m \in Modules |-> IF m \in PlaceholderModules THEN path[m] ELSE NoPath]
        /\ UNCHANGED <<request, resume, refusals, files, pending, replaced, packageFiles>>
    BY <1>14 DEF EmitPlaceholders
  <2>2. StrictHasNoPlaceholders'
    BY <2>1 DEF StrictHasNoPlaceholders, PlaceholderModules
  <2>3. NothingEmittedYet' /\ PendingAreEmittable' /\ FilesAreEmittable' /\ BackendFilesWereChecked'
    BY <1>0, <2>1 DEF FilesInvariant, NothingEmittedYet, PendingAreEmittable, FilesAreEmittable,
       Selected, Emittable, Refused, OwnRefused, BackendFilesWereChecked
  <2>4. FilesAreDistinct'
    BY <2>1 DEF FilesInvariant, FilesAreDistinct, Available, Refused, OwnRefused, Collides, Key
  <2> QED
    BY <2>2, <2>3, <2>4 DEF FilesInvariant
<1>15. CASE Publish
  BY <1>15, PublicationKeepsFiles
<1>16. CASE BackendThrows
  BY <1>16, QuietStepKeepsFiles DEF BackendThrows, Fail
<1>17. CASE UNCHANGED vars
  <2>1. UNCHANGED <<request, phase, resume, refusals, files, pending, results>>
    BY <1>17 DEF vars
  <2>2. \A m \in Modules : Emittable(m)' = Emittable(m)
    BY <2>1 DEF Emittable, Refused, OwnRefused
  <2>3. NothingEmittedYet' /\ FilesAreEmittable' /\ StrictHasNoPlaceholders'
    BY <2>1, <2>2 DEF FilesInvariant, NothingEmittedYet, FilesAreEmittable, Selected,
       StrictHasNoPlaceholders
  <2>4. PendingAreEmittable'
    BY <2>1 DEF FilesInvariant, PendingAreEmittable, Selected, Emittable, Refused, OwnRefused
  <2>5. FilesAreDistinct'
    BY <2>1 DEF FilesInvariant, FilesAreDistinct, Available, Refused, OwnRefused, Collides, Key
  <2>6. BackendFilesWereChecked'
    BY <2>1 DEF FilesInvariant, BackendFilesWereChecked, PathsCollide, AllOutput, ModuleOutput,
       PlaceholderOutput, PackageOutput
  <2> QED
    BY <2>3, <2>4, <2>5, <2>6 DEF FilesInvariant
<1> QED
  BY <1>1, <1>2, <1>3, <1>4, <1>5, <1>6, <1>7, <1>8, <1>9, <1>10, <1>11,
     <1>12, <1>13, <1>14, <1>15, <1>16, <1>17 DEF Next

\* What is known of the files of a record while the passes go on.
THEOREM FilesCorrect == Spec => []FilesInvariant
<1>1. TypeOK /\ FilesInvariant /\ [Next]_vars => FilesInvariant'
  BY NextFiles
<1> QED
  BY InitFiles, <1>1, TypeCorrect, PTL DEF Spec

\* A record that was refused after it had emitted keeps no files: whatever has
\* files in a result was selected and not refused for reasons of its own.
THEOREM SurvivorsFiles == Spec => []OnlySurvivorsHaveFiles
<1>1. FilesInvariant => OnlySurvivorsHaveFiles
  BY DEF FilesInvariant, FilesAreEmittable, OnlySurvivorsHaveFiles, Surviving
<1> QED
  BY <1>1, FilesCorrect, PTL

LEMMA StrictSurvivorsAreDistinct ==
  ASSUME TypeOK, FilesInvariant, phase = "done", ~bestEffort, packageFiles = {}, ~replaced
  PROVE  ~PathsCollide(Published)
<1> SUFFICES ASSUME NEW x \in Published, NEW y \in Published, x # y,
                    x.package = y.package, Fold[x.path] = Fold[y.path]
             PROVE  FALSE
  BY DEF PathsCollide
<1>1. Published = ModuleOutput(Surviving)
  BY DEF Published, PlaceholderOutput, PackageOutput, FilesInvariant, StrictHasNoPlaceholders
<1>2. PICK m \in Surviving : \E f \in files[m] :
        x = [source |-> <<m, f[1]>>, package |-> PackageOf[m], path |-> f[2]]
  BY <1>1 DEF ModuleOutput
<1>3. PICK n \in Surviving : \E g \in files[n] :
        y = [source |-> <<n, g[1]>>, package |-> PackageOf[n], path |-> g[2]]
  BY <1>1 DEF ModuleOutput
<1>4. PICK f \in files[m] : x = [source |-> <<m, f[1]>>, package |-> PackageOf[m], path |-> f[2]]
  BY <1>2
<1>5. PICK g \in files[n] : y = [source |-> <<n, g[1]>>, package |-> PackageOf[n], path |-> g[2]]
  BY <1>3
<1>6. m \in Available /\ n \in Available
  BY DEF Surviving, Emittable, Available
<1>7. ~Collides(m, f, n, g)
  BY <1>6 DEF FilesInvariant, FilesAreDistinct, AfterCollisions
<1>8. Key(m, f) = Key(n, g)
  BY <1>4, <1>5 DEF Key
<1>9. m = n /\ f = g
  BY <1>7, <1>8 DEF Collides
<1> QED
  BY <1>4, <1>5, <1>9

\* No published file of a package overwrites another on a host that folds case,
\* in a strict run and wherever the backend's files were checked.
THEOREM DistinctPaths == Spec => []PublishedPathsDistinct
<1>1. TypeOK /\ FilesInvariant => PublishedPathsDistinct
  <2> SUFFICES ASSUME TypeOK, FilesInvariant, phase = "done",
                      ~bestEffort \/ packageFiles # {} \/ replaced
               PROVE  ~PathsCollide(Published)
    BY DEF PublishedPathsDistinct
  <2>1. CASE packageFiles # {} \/ replaced
    <3>1. Published \subseteq AllOutput
      BY DEF Published, AllOutput, ModuleOutput, Surviving
    <3>2. ~PathsCollide(AllOutput)
      BY <2>1 DEF FilesInvariant, BackendFilesWereChecked
    <3> QED
      BY <3>1, <3>2 DEF PathsCollide
  <2>2. CASE ~(packageFiles # {} \/ replaced)
    BY <2>2, StrictSurvivorsAreDistinct
  <2> QED
    BY <2>1, <2>2
<1> QED
  BY <1>1, FilesCorrect, TypeCorrect, PTL

=============================================================================
