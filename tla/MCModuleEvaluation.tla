------------------------- MODULE MCModuleEvaluation -------------------------
(***************************************************************************)
(* Instances of ModuleEvaluation for TLC: every runtime import graph of    *)
(* four modules with at most two imports each, and graphs of three modules *)
(* in which the imports may be type-only, with a fourth as further entry.  *)
(***************************************************************************)
EXTENDS ModuleEvaluation

CONSTANTS a, b, c, d

ThreeModules == {a, b, c}
FourModules == {a, b, c, d}

RuntimeImport(m) == [target |-> m, runtime |-> TRUE]
Import == [target : ThreeModules, runtime : BOOLEAN]

\* Import lists of at most two different targets, a module itself excepted.
RuntimeLists(m) ==
  {<<>>} \cup {<<RuntimeImport(n)>> : n \in Modules}
  \cup {<<RuntimeImport(e[1]), RuntimeImport(e[2])>> :
          e \in {f \in (Modules \ {m}) \X (Modules \ {m}) : f[1] # f[2]}}

\* At most two imports, of any two targets and kinds: one module may import
\* another both for its types and at run time.
MixedLists ==
  {<<>>} \cup {<<r>> : r \in Import} \cup {<<e[1], e[2]>> : e \in {f \in Import \X Import : f[1] # f[2]}}

RuntimeGraphs == {g \in [Modules -> UNION {RuntimeLists(m) : m \in Modules}] :
                    \A m \in Modules : g[m] \in RuntimeLists(m)}
\* Three modules, of which the first imports two and the others at most one, and
\* a fourth, always an entry, that runs b.
MixedGraphs ==
  {g \in [Modules -> MixedLists] :
     Len(g[b]) <= 1 /\ Len(g[c]) <= 1 /\ g[d] = <<RuntimeImport(b)>>}

Graphs == RuntimeGraphs \cup MixedGraphs
EntriesOfEither == {<<a>>, <<a, d>>, <<a, c, d>>, <<d, c, a>>}
MaybeFault == {{}, {b}}

\* The runtime graphs are entered once and without faults, the mixed ones at
\* two modules or three.
Instances ==
  IF Len(entries) = 1 THEN requests \in RuntimeGraphs /\ faults = {}
  ELSE requests \in MixedGraphs

MCInit == Init /\ Instances

MCSpec == MCInit /\ [][Next]_vars /\ WF_vars(Next)

\* The evaluation order of the source language as its algorithm computes it:
\* ECMA-262's InnerModuleEvaluation runs a module when the loop over its requests
\* ends.
RECURSIVE SourceOrder(_, _)
SourceOrder(pending, state) ==
  IF pending = <<>> THEN state
  ELSE LET m == Head(pending)
           requested == SelectSeq(requests[m], LAMBDA r : r.runtime)
           inner == SourceOrder([k \in 1..Len(requested) |-> requested[k].target],
                                [state EXCEPT !.seen = @ \cup {m}])
       IN IF m \in state.seen THEN SourceOrder(Tail(pending), state)
          ELSE SourceOrder(Tail(pending), [inner EXCEPT !.order = Append(@, m)])

EvaluationOrder == SourceOrder(entries, [seen |-> {}, order |-> <<>>]).order
\* The relation by which AcyclicOrderIsSourceOrder states that order is the order
\* that the algorithm computes, for any two modules and cycles included.
RunsBeforeIsComputed ==
  phase = "planned" =>
    \A i, j \in 1..Len(EvaluationOrder) :
      i < j <=> i # j /\ RunsBefore(EvaluationOrder[i], EvaluationOrder[j])

\* Evaluation order is deterministic, cycles included, and matches the source
\* language's own rule: a cyclic group runs in the order of that language.
CyclesKeepSourceOrder ==
  phase = "planned" =>
    \A g \in ToSet(groups) :
      g.modules = SelectSeq(EvaluationOrder, LAMBDA m : m \in Members(g))

=============================================================================
