--------------------------- MODULE ModuleExports ---------------------------
(***************************************************************************)
(* The exports of a graph of ECMAScript modules, and what the language     *)
(* says a name of a module stands for.  Two parts of the tool answer that  *)
(* question on their own: the workspace inventory (ExportInventory) and    *)
(* the package graph compilation (ExportTracing).                          *)
(*                                                                         *)
(* A module has at most one explicit export for a name, and a list of      *)
(* export-star declarations.  Types and values are not told apart.         *)
(***************************************************************************)
EXTENDS Naturals, Sequences, FiniteSets, SequencesExt

CONSTANTS
  Modules,      \* the modules of a graph
  Names,        \* the names they export, and those of their bindings
  Default,      \* "default", which no export-star passes on
  Graphs        \* the graphs of an instance, with the lanes and requests asked of them

(***************************************************************************)
(* What a module may say of a name: nothing; that it exports its own       *)
(* binding b; that it exports a namespace object of m; that it re-exports  *)
(* name n of m; or that it imports name n of m as b and exports that.      *)
(***************************************************************************)
Absent           == [kind |-> "absent"]
Own(b)           == [kind |-> "own", binding |-> b]
Namespace(m)     == [kind |-> "namespace", from |-> m]
From(m, n)       == [kind |-> "from", from |-> m, name |-> n]
Through(b, m, n) == [kind |-> "through", binding |-> b, from |-> m, name |-> n]

Entries ==
  [kind : {"absent"}]
    \cup [kind : {"own"}, binding : Names]
    \cup [kind : {"namespace"}, from : Modules]
    \cup [kind : {"from"}, from : Modules, name : Names]
    \cup [kind : {"through"}, binding : Names, from : Modules, name : Names]

\* The entry exports the module's own binding b, or its import of that name.
Binds(entry, b) == entry.kind \in {"own", "through"} /\ entry.binding = b

Requests == [importer : Modules, barrel : Modules, names : SUBSET Names]

\* A module has one entry for a name, and binds a name once.
IsGraph(g) ==
  /\ g.explicit \in [Modules -> [Names -> Entries]]
  /\ g.stars \in [Modules -> Seq(Modules)]
  /\ g.lanes \subseteq Modules
  /\ g.requests \subseteq Requests
  /\ \A m \in Modules : \A n, k, b \in Names :
       Binds(g.explicit[m][n], b) /\ Binds(g.explicit[m][k], b) => g.explicit[m][n] = g.explicit[m][k]

ASSUME ModulesAssumption == IsFiniteSet(Modules)
ASSUME NamesAssumption == IsFiniteSet(Names) /\ Default \in Names
ASSUME GraphsAssumption == \A g \in Graphs : IsGraph(g)

VARIABLE graph

\* The function f, and g where f is not defined; and f with the value v for x.
Over(f, g) == [x \in DOMAIN f \cup DOMAIN g |-> IF x \in DOMAIN f THEN f[x] ELSE g[x]]
With(f, x, v) == [y \in DOMAIN f \cup {x} |-> IF y = x THEN v ELSE f[y]]

NamespaceObject == "namespace object"

Pairs == Modules \X Names

Export(p) == graph.explicit[p[1]][p[2]]
Stars(m) == Range(graph.stars[m])

\* The names of other modules that p may be another name for.  An explicit
\* export shadows every export-star, resolved or not.
Leads(p) ==
  LET entry == Export(p)
  IN IF entry.kind \in {"from", "through"} THEN {<<entry.from, entry.name>>}
     ELSE IF entry.kind = "absent" /\ p[2] # Default THEN Stars(p[1]) \X {p[2]}
     ELSE {}

\* Everything the names of S lead to, themselves included.
Behind[S \in SUBSET Pairs] ==
  LET T == S \cup UNION {Leads(p) : p \in S}
  IN IF T = S THEN S ELSE Behind[T]

\* The names that p leads to, p included.
Follow(p) == Behind[{p}]

\* What a name declares where it stands: a binding of its module, or an object for
\* the namespace of another, which is told apart by the module that exports it.
Declared(p) ==
  LET entry == Export(p)
  IN CASE entry.kind = "own"       -> {<<p[1], entry.binding>>}
       [] entry.kind = "namespace" -> {<<p[1], NamespaceObject>>}
       [] OTHER                    -> {}

(***************************************************************************)
(* What the language resolves p to: every declaration the name leads to.   *)
(* None: the name is not exported.  One: it is exported.  Several: it is   *)
(* ambiguous, and no module may import it.                                 *)
(***************************************************************************)
Origins(p) == UNION {Declared(q) : q \in Follow(p)}

\* The graph is a program: every re-exported name is exported by its target,
\* unambiguously, and not by way of the re-export itself (a circular alias).
Wellformed ==
  \A p \in Pairs : Export(p).kind \in {"from", "through"} =>
    Cardinality(Origins(p)) = 1 /\ p \notin Behind[Leads(p)]

\* No name leads back to itself.
Acyclic == \A p \in Pairs : p \notin Behind[Leads(p)]

\* A name leads to another name of its own module.
Revisits == \E p \in Pairs : \E q \in Follow(p) : q[1] = p[1] /\ q # p

\* The declarations that module m's own binding or import b stands for.
Denoted(m, b) ==
  UNION {Origins(<<m, n>>) : n \in {k \in Names : Binds(Export(<<m, k>>), b)}}

=============================================================================
