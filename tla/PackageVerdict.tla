--------------------------- MODULE PackageVerdict ---------------------------
(***************************************************************************)
(* What a package-graph compilation promises about its modules, whatever   *)
(* order it lowers, plans, emits and propagates in: the modules refused    *)
(* for reasons of their own, the import graph and the mode alone decide    *)
(* which modules are refused, which write output and which can be run, and *)
(* that verdict is given once.                                             *)
(***************************************************************************)

CONSTANTS Modules, LinkGraphs, EntrySets, Scopes

VARIABLES
  graph,    \* <<importer, target>> pairs
  roots,    \* the modules evaluation starts from
  scope,    \* the modules this compilation is asked to write
  lenient,  \* best effort
  culprits, \* modules refused for reasons of their own
  verdict   \* what the compilation says of the modules

vars == <<graph, roots, scope, lenient, culprits, verdict>>

Open == [status |-> "open"]
Failed == [status |-> "failed"]

ImportersOf(broken) ==
  {m \in Modules :
     \A X \in SUBSET Modules :
        broken \subseteq X /\ (\A e \in graph : e[2] \in X => e[1] \in X) => m \in X}

\* Refused modules are not evaluated, and neither is what only they reach.
RunnableWithout(refused) ==
  {m \in Modules :
     \A X \in SUBSET Modules :
        /\ roots \ refused \subseteq X
        /\ \A e \in graph : e[1] \in X /\ e[2] \notin refused => e[2] \in X
        => m \in X}

Init ==
  /\ graph \in LinkGraphs
  /\ \E chosen \in EntrySets : roots = IF chosen = {} THEN Modules ELSE chosen
  /\ scope \in Scopes
  /\ lenient \in BOOLEAN
  /\ culprits = {}
  /\ verdict = Open

Blame(broken) ==
  /\ verdict = Open
  /\ culprits' = culprits \cup broken
  /\ UNCHANGED <<graph, roots, scope, lenient, verdict>>

Settle ==
  /\ verdict = Open
  /\ LET refused == ImportersOf(culprits)
     IN verdict' = [status   |-> "settled",
                    refused  |-> refused,
                    written  |-> scope \ (IF lenient THEN culprits ELSE refused),
                    runnable |-> RunnableWithout(refused)]
  /\ UNCHANGED <<graph, roots, scope, lenient, culprits>>

\* A compilation that fails as a whole gives no verdict, even a settled one.
Abort ==
  /\ verdict # Failed
  /\ verdict' = Failed
  /\ UNCHANGED <<graph, roots, scope, lenient, culprits>>

Next == (\E broken \in SUBSET Modules : Blame(broken)) \/ Settle \/ Abort

Spec == Init /\ [][Next]_vars

=============================================================================
