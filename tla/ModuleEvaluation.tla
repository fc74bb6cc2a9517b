-------------------------- MODULE ModuleEvaluation --------------------------
(***************************************************************************)
(* The neutral module evaluation plan of                                   *)
(* packages/compiler-module/src/compilerModuleEvaluation.ts:               *)
(* createCompilerModuleEvaluationPlan groups the modules an entry          *)
(* evaluates into strongly connected components, dependencies first, with  *)
(* one recursive depth-first visit per module, and                         *)
(* createCompilerModuleEvaluationPlanProjection cuts the plan down to the  *)
(* modules that survived emission.  A visit's stack frame is explicit      *)
(* here: `frames' holds, for each open call, the module and the request    *)
(* its loop is at.  The modules and dependency routes are well formed: the *)
(* malformed-input failures that name no module end a run elsewhere.       *)
(***************************************************************************)
EXTENDS Naturals, SequencesExt

CONSTANTS
  Modules,       \* module identities of one plan
  RequestGraphs, \* each module's link requests, in source order
  EntryLists,    \* entry modules, in order
  FaultSets      \* modules whose own plan cannot be built

\* One dependency route: its target, and whether it is imported at run time
\* or only for its types.
Request == [target : Modules, runtime : BOOLEAN]

ASSUME InputAssumption ==
  /\ RequestGraphs \subseteq [Modules -> Seq(Request)]
  /\ EntryLists \subseteq Seq(Modules)
  /\ FaultSets \subseteq SUBSET Modules

VARIABLES
  requests,  \* the link requests of this input
  entries,   \* the entries of this input
  faults,    \* modules with a top-level await or another planning failure
  phase,     \* program point
  position,  \* the next entry of the loop over entries
  visited,   \* modules in the order they got their index
  lowLinks,  \* lowLinks of the visited modules, 0 for the others
  stack,     \* the component stack
  frames,    \* the open calls of visitCompilerModuleEvaluationRecord
  groups,    \* completed groups: their modules, and cyclic
  projected, \* the projection's entries, groups and modules
  failure    \* code of the failure that ended planning or projection

input == <<requests, entries, faults>>
traversal == <<position, visited, lowLinks, stack, frames, groups>>
vars == <<input, phase, traversal, projected, failure>>

-----------------------------------------------------------------------------

Targets(m) == {requests[m][k].target : k \in 1..Len(requests[m])}

\* record.dependencies: only runtime routes, in request order, by their places
\* among the requests.
RuntimePlaces(m) == {k \in 1..Len(requests[m]) : requests[m][k].runtime}
RuntimeTargets(m) == {requests[m][k].target : k \in RuntimePlaces(m)}

\* The first of these places from k on, or the place behind the last request.
PlaceFrom(m, k) == Min({l \in RuntimePlaces(m) : l >= k} \cup {Len(requests[m]) + 1})

\* The worklist closure of a set of modules over the edges `next'.
Closure(start, next(_)) ==
  {m \in Modules :
     \A X \in SUBSET Modules :
       start \subseteq X /\ (\A n \in X : next(n) \subseteq X) => m \in X}

Index(m) == CHOOSE k \in 1..Len(visited) : visited[k] = m
Lower(x, y) == IF x < y THEN x ELSE y

NoPlan == [entries |-> <<>>, groups |-> <<>>, modules |-> {}]

Init ==
  /\ requests \in RequestGraphs
  /\ entries \in EntryLists
  /\ faults \in FaultSets
  /\ phase = "grouping"
  /\ position = 1
  /\ visited = <<>>
  /\ lowLinks = [m \in Modules |-> 0]
  /\ stack = <<>>
  /\ frames = <<>>
  /\ groups = <<>>
  /\ projected = NoPlan
  /\ failure = "none"

-----------------------------------------------------------------------------
(* The depth-first visit *)

\* Entering the visit of a module: it takes the next index as its low link.
Open(m) ==
  /\ visited' = Append(visited, m)
  /\ lowLinks' = [lowLinks EXCEPT ![m] = Len(visited) + 1]
  /\ stack' = Append(stack, m)
  /\ frames' = Append(frames, [module |-> m, next |-> PlaceFrom(m, 1)])

VisitEntry ==
  /\ phase = "grouping"
  /\ frames = <<>>
  /\ position <= Len(entries)
  /\ position' = position + 1
  /\ IF Contains(visited, entries[position])
     THEN UNCHANGED <<visited, lowLinks, stack, frames>>
     ELSE Open(entries[position])
  /\ UNCHANGED <<input, phase, groups, projected, failure>>

Current == Last(frames).module
AtRequest == frames # <<>> /\ Last(frames).next <= Len(requests[Current])
\* Mutant: take the requests from the end, as a worklist would.
DependencyFromEnd ==
  LET behind(k) == Cardinality({l \in RuntimePlaces(Current) : l > k})
      ahead(k) == Cardinality({l \in RuntimePlaces(Current) : l < k})
      place == CHOOSE k \in RuntimePlaces(Current) : behind(k) = ahead(Last(frames).next)
  IN requests[Current][place].target
Dependency == requests[Current][Last(frames).next].target
\* Mutant: forget to advance the loop.
NotAdvanced(calls) == calls
Advanced(calls) ==
  IF calls = <<>> THEN <<>>
  ELSE [calls EXCEPT ![Len(calls)].next = PlaceFrom(Last(calls).module, @ + 1)]

VisitDependency ==
  /\ phase = "grouping"
  /\ AtRequest
  /\ ~Contains(visited, Dependency)
  /\ Open(Dependency)
  /\ UNCHANGED <<input, phase, position, groups, projected, failure>>

\* Mutant: a finished dependency counts as well.
RevisitFinishedDependency ==
  /\ phase = "grouping"
  /\ AtRequest
  /\ Contains(visited, Dependency)
  /\ lowLinks' = [lowLinks EXCEPT ![Current] = Lower(@, Index(Dependency))]
  /\ frames' = Advanced(frames)
  /\ UNCHANGED <<input, phase, position, visited, stack, groups, projected, failure>>

\* A dependency that was visited before counts only while it is on the stack.
RevisitDependency ==
  /\ phase = "grouping"
  /\ AtRequest
  /\ Contains(visited, Dependency)
  /\ lowLinks' = IF Contains(stack, Dependency)
                 THEN [lowLinks EXCEPT ![Current] = Lower(@, Index(Dependency))]
                 ELSE lowLinks
  /\ frames' = Advanced(frames)
  /\ UNCHANGED <<input, phase, position, visited, stack, groups, projected, failure>>

\* Mutant: the caller keeps its own low link.
ReturnNothing(m) == frames' = Advanced(Front(frames)) /\ UNCHANGED lowLinks

\* The caller of the returning visit takes over its low link.
Return(m) ==
  LET calls == Front(frames)
  IN /\ frames' = Advanced(calls)
     /\ lowLinks' = IF calls = <<>> THEN lowLinks
                    ELSE [lowLinks EXCEPT ![Last(calls).module] = Lower(@, lowLinks[m])]

\* Mutant: list the popped modules as one.
PoppedAsOne(m) ==
  <<Reverse(SubSeq(stack, CHOOSE k \in 1..Len(stack) : stack[k] = m, Len(stack)))>>
\* A group lists its modules as they are popped off the stack.
Popped(m) ==
  Reverse(SubSeq(stack, CHOOSE k \in 1..Len(stack) : stack[k] = m, Len(stack)))

CloseGroup ==
  /\ phase = "grouping"
  /\ frames # <<>> /\ ~AtRequest
  /\ lowLinks[Current] = Index(Current)
  /\ groups' = Append(groups,
       [cyclic  |-> Len(Popped(Current)) > 1 \/ Current \in RuntimeTargets(Current),
        modules |-> Popped(Current)])
  /\ stack' = SubSeq(stack, 1, Len(stack) - Len(Popped(Current)))
  /\ Return(Current)
  /\ UNCHANGED <<input, phase, position, visited, projected, failure>>

LeaveOnStack ==
  /\ phase = "grouping"
  /\ frames # <<>> /\ ~AtRequest
  /\ lowLinks[Current] # Index(Current)
  /\ Return(Current)
  /\ UNCHANGED <<input, phase, position, visited, stack, groups, projected, failure>>

-----------------------------------------------------------------------------
(* Reachability and module plans *)

Fail(code) == phase' = "failed" /\ failure' = code

\* Every input module needs an entry path, over type-only links as well.
AssertReachability ==
  /\ phase = "grouping"
  /\ frames = <<>> /\ position > Len(entries)
  /\ IF Closure(ToSet(entries), Targets) = Modules
     THEN phase' = "planning" /\ UNCHANGED failure
     ELSE Fail("unreachable-module")
  /\ UNCHANGED <<input, traversal, projected>>

\* Each module's bindings and steps; the failures name the module.
PlanModules ==
  /\ phase = "planning"
  /\ IF faults = {} THEN phase' = "planned" /\ UNCHANGED failure
                    ELSE Fail("module-plan")
  /\ UNCHANGED <<input, traversal, projected>>

-----------------------------------------------------------------------------
(* The projection onto the modules available after emission *)

Members(group) == ToSet(group.modules)
SplitsGroup(selection) ==
  \E k \in 1..Len(groups) :
    Members(groups[k]) \cap selection \notin {{}, Members(groups[k])}
\* Mutant: some dependency must be kept rather than every one.
OpenSelectionSome(selection) ==
  \E m \in selection : Targets(m) # {} /\ Targets(m) \cap selection = {}
OpenSelection(selection) == \E m \in selection : ~(Targets(m) \subseteq selection)

\* The elements of a list that are kept, in their order: they stand at these places.
InOrder(places) ==
  CHOOSE e \in [1..Cardinality(places) -> places] : \A i, j \in DOMAIN e : i < j => e[i] < e[j]
Selected(list, kept) ==
  LET e == InOrder({k \in 1..Len(list) : list[k] \in kept})
  IN [i \in DOMAIN e |-> list[e[i]]]

ProjectedEntries(selection) == Selected(entries, selection)
ProjectedModules(selection) == Closure(ToSet(ProjectedEntries(selection)), Targets)
\* Mutant: keep the groups of the entries only.
ProjectedEntryGroups(selection) ==
  Selected(groups, {g \in ToSet(groups) : Members(g) \cap ToSet(ProjectedEntries(selection)) # {}})
ProjectedGroups(selection) ==
  Selected(groups, {g \in ToSet(groups) : Members(g) \cap ProjectedModules(selection) # {}})

\* The plan survives whole groups only; the last check guards the result.
Project(selection) ==
  /\ phase = "planned"
  /\ IF SplitsGroup(selection) THEN Fail("partial-scc-selection") /\ UNCHANGED projected
     ELSE IF OpenSelection(selection)
     THEN Fail("non-closed-selection") /\ UNCHANGED projected
     ELSE IF SplitsGroup(ProjectedModules(selection))
     THEN Fail("split-projection") /\ UNCHANGED projected
     ELSE /\ projected' = [entries |-> ProjectedEntries(selection),
                           groups  |-> ProjectedGroups(selection),
                           modules |-> ProjectedModules(selection)]
          /\ phase' = "projected"
          /\ UNCHANGED failure
  /\ UNCHANGED <<input, traversal>>

-----------------------------------------------------------------------------

Next ==
  \/ VisitEntry
  \/ VisitDependency
  \/ RevisitDependency
  \/ CloseGroup
  \/ LeaveOnStack
  \/ AssertReachability
  \/ PlanModules
  \/ \E selection \in SUBSET Modules : Project(selection)

\* Planning and projection are synchronous calls.
Spec == Init /\ [][Next]_vars /\ WF_vars(Next)

-----------------------------------------------------------------------------
(* Properties *)

GroupList == Seq([cyclic : BOOLEAN, modules : Seq(Modules)])

\* The types of the variables.
TypeOK ==
  /\ requests \in [Modules -> Seq(Request)]
  /\ entries \in Seq(Modules)
  /\ faults \subseteq Modules
  /\ phase \in {"grouping", "planning", "planned", "projected", "failed"}
  /\ position \in Nat
  /\ visited \in Seq(Modules)
  /\ lowLinks \in [Modules -> Nat]
  /\ stack \in Seq(Modules)
  /\ frames \in Seq([module : Modules, next : Nat])
  /\ groups \in GroupList
  /\ projected \in [entries : Seq(Modules), groups : GroupList, modules : SUBSET Modules]
  /\ failure \in {"none", "unreachable-module", "module-plan",
                 "partial-scc-selection", "non-closed-selection", "split-projection"}

Grouped == phase \in {"planning", "planned", "projected"}

\* What a set of modules evaluates: everything it reaches over runtime edges.
Evaluates(start) == Closure(start, RuntimeTargets)
Component(m) == {n \in Evaluates({m}) : m \in Evaluates({n})}

Scheduled(list) == UNION {Members(g) : g \in ToSet(list)}

\* Every runtime dependency of a group is in the group or in an earlier one.
DependencyFirst(list) ==
  \A k \in 1..Len(list) : \A m \in Members(list[k]) :
    RuntimeTargets(m) \subseteq Scheduled(SubSeq(list, 1, k))

\* The groups are the strongly connected components of the runtime graph, each
\* once, they cover exactly what the entries evaluate, and a module imported
\* for its types only is in none unless something else evaluates it.
GroupsAreComponents ==
  Grouped =>
    /\ {Members(g) : g \in ToSet(groups)} = {Component(m) : m \in Evaluates(ToSet(entries))}
    /\ \A k \in 1..Len(groups) :
         /\ IsInjective(groups[k].modules)
         /\ \A l \in 1..Len(groups) :
              Members(groups[k]) \cap Members(groups[l]) # {} => k = l

\* At every moment of the traversal the completed groups can be evaluated in
\* their order: a dependency never ends up in a later group than its importer.
GroupsDependencyFirst == DependencyFirst(groups)

\* What waits on the component stack belongs to a component that is still
\* open: it leads back to a module whose visit has not returned, and no module
\* is both waiting and in a completed group.
StackIsOpen ==
  /\ \A m \in ToSet(stack) : \E k \in 1..Len(frames) :
       /\ frames[k].module \in Evaluates({m})
       /\ Index(frames[k].module) <= Index(m)
  /\ ToSet(stack) \cap Scheduled(groups) = {}
  /\ ToSet(visited) = ToSet(stack) \cup Scheduled(groups)

\* A selection that splits a component is not closed under dependencies, so the
\* projection throws exactly for the selections that are not closed, and the
\* check of its result can never fail.
SplitSelectionsAreOpen ==
  /\ phase = "planned" => \A S \in SUBSET Modules : SplitsGroup(S) => OpenSelection(S)
  /\ failure # "split-projection"

\* A projected plan is evaluated like a candidate: dependencies first, whole
\* components, and everything its entries evaluate.
ProjectionEvaluable ==
  phase = "projected" =>
    /\ DependencyFirst(projected.groups)
    /\ \A g \in ToSet(projected.groups) : \A m \in Members(g) : Members(g) = Component(m)
    /\ Evaluates(ToSet(projected.entries)) \subseteq Scheduled(projected.groups)
    /\ Scheduled(projected.groups) \subseteq projected.modules

\* The evaluation order of the source language: ECMA-262's InnerModuleEvaluation
\* passes over a module it has seen, and else marks it as seen, goes through its
\* requests in their order, and runs it.  So it is known by what has been seen
\* when: what a start comes to, past what was seen already, is seen after it.
NewlySeen(seen, start) ==
  {m \in Modules :
     \A X \in SUBSET Modules :
       (start \ seen) \subseteq X /\ (\A n \in X : (RuntimeTargets(n) \ seen) \subseteq X) => m \in X}

EarlierEntries(i) == {entries[j] : j \in 1..(i - 1)}
FollowedBefore(m, next) == {requests[m][l].target : l \in {p \in RuntimePlaces(m) : p < next}}

\* What was visited before a module, and in the language what its loop has seen
\* when it comes to a request.
SeenBefore(m) == {visited[k] : k \in 1..(Index(m) - 1)}
SeenAt(m, p) ==
  LET begun == SeenBefore(m) \cup {m}
  IN begun \cup NewlySeen(begun, FollowedBefore(m, p))

\* An entry or a request to a module that was not seen begins it just then.
EntryBegins(i) ==
  LET seen == NewlySeen({}, EarlierEntries(i))
  IN entries[i] \notin seen => SeenBefore(entries[i]) = seen
RequestBegins(m, p) ==
  LET seen == SeenAt(m, p)
      target == requests[m][p].target
  IN target \notin seen => SeenBefore(target) = seen

\* A module runs before another one that has seen it when its own loop ends, and
\* that does not run within its loop.
RunsBefore(m, n) ==
  /\ m \in SeenBefore(n) \cup NewlySeen(SeenBefore(n), {n})
  /\ n \notin NewlySeen(SeenBefore(m), {m})

\* Modules are visited as the source language begins them, and those outside
\* cycles come in the order in which it runs them, whatever cycles there are
\* around them.
AcyclicOrderIsSourceOrder ==
  phase = "planned" =>
    /\ \A i \in 1..Len(entries) : EntryBegins(i)
    /\ \A m \in ToSet(visited) : \A p \in RuntimePlaces(m) : RequestBegins(m, p)
    /\ \A i, j \in 1..Len(groups) : \A m, n \in Modules :
         i < j /\ groups[i].modules = <<m>> /\ groups[j].modules = <<n>> => RunsBefore(m, n)

\* The recursion and the loop over entries end.
Terminates == <>(phase \in {"planned", "projected", "failed"})

\* Type-only imports do not schedule evaluation, in a projected plan either.
TypeOnlySchedulesNothing ==
  phase = "projected" =>
    Scheduled(projected.groups) \subseteq Evaluates(ToSet(projected.entries))

=============================================================================
