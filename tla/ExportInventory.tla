-------------------------- MODULE ExportInventory --------------------------
(***************************************************************************)
(* How the workspace inventory resolves the export lanes of its packages   *)
(* (compiler-inventory, resolveExports).  A lane is a module; the inventory *)
(* collects the modules its exports reach, and repeats a pass over all of  *)
(* them, each pass computing every module's candidates from those of the   *)
(* pass before, until a pass changes nothing.  It then insists that every  *)
(* named export has one candidate, and keeps the candidates of the whole   *)
(* graph for the lanes that follow.  Any failure ends the analysis.        *)
(***************************************************************************)
EXTENDS ModuleExports

VARIABLES
  resolved,   \* resolvedCandidates: module -> name -> its candidates
  lane,       \* the lane in work, or NoLane
  states,     \* the candidates the last pass computed for the lane's graph
  passes,     \* how many passes the lane has had
  failure     \* why the analysis ended, or NoFailure

inventoryVars == <<resolved, lane, states, passes, failure>>

NoLane == "no lane"
NoFailure == "none"

\* The files an export declaration, or the import behind one, names.
References(m) ==
  Stars(m) \cup {Export(<<m, n>>).from :
                   n \in {k \in Names : Export(<<m, k>>).kind \in {"from", "through", "namespace"}}}

\* collectExportGraph, which does not look behind a resolved module.
ExportGraph[S \in SUBSET Modules] ==
  LET T == S \cup UNION {References(m) : m \in S \ DOMAIN resolved}
  IN IF T = S THEN S ELSE ExportGraph[T]

\* The exports that stand on a declaration of the module, before any pass.  One
\* that gives the declaration another name is an export clause.
Direct(m) ==
  [n \in Names |-> IF Export(<<m, n>>) = Own(n) THEN {<<m, n>>} ELSE {}]

\* Mutant: an export-star adds to a named re-export of the same name.
SourcePassUnshadowed(m) ==
  [n \in Names |->
     LET p == <<m, n>>
         named == IF Export(p).kind \in {"from", "through"}
                  THEN states[Export(p).from][Export(p).name] ELSE Declared(p)
     IN IF n = Default THEN named ELSE named \cup UNION {states[s][n] : s \in Stars(m)}]

\* resolveSourcePass: the candidates of m, from those of the last pass.  A named
\* export whose target has no candidate yet leaves the name to the stars.
SourcePass(m) ==
  [n \in Names |->
     LET p == <<m, n>>
         named == IF Export(p).kind \in {"from", "through"}
                  THEN states[Export(p).from][Export(p).name] ELSE Declared(p)
     IN IF named # {} \/ n = Default THEN named
        ELSE UNION {states[s][n] : s \in Stars(m)}]

Pass ==
  [m \in DOMAIN states |-> IF m \in DOMAIN resolved THEN resolved[m] ELSE SourcePass(m)]

\* The candidate sets validateNamedExports looks at: those of each name in an
\* export clause, and those of the target's name if the clause names a file.
Asserted ==
  LET clauses == {p \in (DOMAIN states) \X Names :
                    \/ Export(p).kind \in {"from", "through"}
                    \/ Export(p).kind = "own" /\ Export(p).binding # p[2]}
      known == Over(states, resolved)
  IN {states[p[1]][p[2]] : p \in clauses}
     \cup {known[Export(p).from][Export(p).name] : p \in {q \in clauses : Export(q).kind = "from"}}

MaximumPasses == Cardinality(DOMAIN states) + 1
-----------------------------------------------------------------------------
InventoryInit ==
  /\ resolved = << >>
  /\ lane = NoLane
  /\ states = << >>
  /\ passes = 0
  /\ failure = NoFailure

\* A lane that is resolved already is answered from the cache.
OpenLane(root) ==
  /\ failure = NoFailure
  /\ lane = NoLane
  /\ root \notin DOMAIN resolved
  /\ lane' = root
  /\ states' = [m \in ExportGraph[{root}] |->
                  IF m \in DOMAIN resolved THEN resolved[m] ELSE Direct(m)]
  /\ passes' = 0
  /\ UNCHANGED <<resolved, failure>>

RepeatPass ==
  /\ failure = NoFailure
  /\ lane # NoLane
  /\ Pass # states
  /\ passes + 1 < MaximumPasses
  /\ states' = Pass
  /\ passes' = passes + 1
  /\ UNCHANGED <<resolved, lane, failure>>

\* Mutant: the candidates of the first pass are kept, whatever a second would say.
CloseLaneEarly ==
  /\ failure = NoFailure
  /\ lane # NoLane
  /\ passes > 0
  /\ resolved' = Over(states, resolved)
  /\ lane' = NoLane
  /\ states' = << >>
  /\ passes' = 0
  /\ UNCHANGED failure

CloseLane ==
  /\ failure = NoFailure
  /\ lane # NoLane
  /\ Pass = states
  /\ \A c \in Asserted : Cardinality(c) = 1
  /\ resolved' = Over(states, resolved)
  /\ lane' = NoLane
  /\ states' = << >>
  /\ passes' = 0
  /\ UNCHANGED failure

RefuseExport ==
  /\ failure = NoFailure
  /\ lane # NoLane
  /\ Pass = states
  /\ \E c \in Asserted :
       /\ Cardinality(c) # 1
       /\ failure' = IF c = {} THEN "unresolved export" ELSE "ambiguous export"
  /\ UNCHANGED <<resolved, lane, states, passes>>

AbandonLane ==
  /\ failure = NoFailure
  /\ lane # NoLane
  /\ Pass # states
  /\ passes + 1 = MaximumPasses
  /\ failure' = "did not converge"
  /\ UNCHANGED <<resolved, lane, states, passes>>

InventoryNext ==
  \/ \E root \in graph.lanes : OpenLane(root)
  \/ RepeatPass
  \/ CloseLane
  \/ RefuseExport
  \/ AbandonLane

=============================================================================
