-------------------------- MODULE ExportResolution --------------------------
(***************************************************************************)
(* The two resolutions of exports over one graph of modules: the lanes of  *)
(* the inventory, in any order, and the requests of the package graph      *)
(* compilation, in any order.                                              *)
(***************************************************************************)
EXTENDS ExportInventory, ExportTracing

exportVars == <<graph, resolved, lane, states, passes, failure, cache, links, request, targets, calls>>

Init == graph \in Graphs /\ InventoryInit /\ TracingInit

Next ==
  /\ UNCHANGED graph
  /\ \/ InventoryNext /\ UNCHANGED tracingVars
     \/ TracingNext /\ UNCHANGED inventoryVars

Spec == Init /\ [][Next]_exportVars
-----------------------------------------------------------------------------
(***************************************************************************)
(* What the inventory publishes is what the language says: a name is       *)
(* published as an export only with its declaration, every exported name   *)
(* is published or reported as a conflict, and an ambiguous one is never   *)
(* decided by the order of the traversal.                                  *)
(***************************************************************************)
PublishedIsTrue ==
  Wellformed => \A m \in DOMAIN resolved, n \in Names :
    LET origins == Origins(<<m, n>>)
    IN /\ origins \subseteq resolved[m][n]
       /\ Cardinality(resolved[m][n]) = 1 => resolved[m][n] = origins

(***************************************************************************)
(* The inventory refuses a lane only if the language refuses the graph: it *)
(* may not depend on the lanes before this one, or on the passes a cycle   *)
(* takes.                                                                  *)
(***************************************************************************)
RefusalsAreErrors == failure # NoFailure => ~Wellformed

\* A re-export beside an export-star, in a graph in which names lead back to
\* themselves: a star's candidate for a name still unresolved can go round a cycle.
ShadowsInCycle ==
  /\ ~Acyclic
  /\ \E p \in Pairs : Export(p).kind \in {"from", "through"} /\ Stars(p[1]) # {}

\* The passes of a lane are as many as its modules and one, which is too few for a
\* chain of names that comes back to a module under another name.
OutOfPasses == failure = "did not converge" /\ Revisits

\* As RefusalsAreErrors, but for those two.
OtherRefusalsAreErrors == failure # NoFailure => ~Wellformed \/ ShadowsInCycle \/ OutOfPasses

(***************************************************************************)
(* Each imported name is linked to one module, whose binding of that name  *)
(* is the declaration the language imports; and only the barrel itself may *)
(* be in a package the importer's does not depend on.                      *)
(***************************************************************************)
NamesReachTheirDeclarations ==
  Wellformed =>
    \A r \in DOMAIN links : \A n \in r.names :
      LET of == {l \in links[r] : n \in l.names}
      IN Cardinality(Origins(<<r.barrel, n>>)) = 1 =>
           /\ Cardinality(of) = 1
           /\ \A l \in of : l.target # r.barrel =>
                /\ Denoted(l.target, n) = Origins(<<r.barrel, n>>)
                /\ MayReach(r.importer, l.target)

(***************************************************************************)
(* Without a cycle every cached resolution is exact, whatever was resolved *)
(* before it: the declaration of a resolved name, the absence of an absent *)
(* one; and a name is unknown only for an ambiguity, a namespace object or *)
(* an exported import on its way.                                          *)
(***************************************************************************)
AcyclicTracesAreExact ==
  Acyclic /\ Wellformed =>
    \A p \in DOMAIN cache :
      CASE cache[p].kind = "resolved" -> Denoted(cache[p].module, cache[p].exported) = Origins(p)
        [] cache[p].kind = "absent"   -> Origins(p) = {}
        [] OTHER -> \/ Cardinality(Origins(p)) # 1
                    \/ \E q \in Follow(p) : Export(q).kind \in {"namespace", "through"}

=============================================================================
