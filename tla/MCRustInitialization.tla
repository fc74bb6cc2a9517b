------------------------ MODULE MCRustInitialization ------------------------
\* Instances of RustInitialization: three modules in two packages.
EXTENDS RustInitialization

CONSTANTS a, b, c, p, q

AllModules == {a, b, c}

\* A package Rust can initialize: c reads a constant of b, b of a.
Whole ==
  [order |-> <<a, b, c>>, cycles |-> {}, linked |-> {}, entries |-> AllModules,
   package |-> [m \in AllModules |-> p], crate |-> [k \in {p, q} |-> k],
   kept |-> AllModules, refused |-> {}, placeholders |-> {}, reserved |-> {},
   locals |-> [m \in AllModules |-> {"primitive-constant", "function-item"}],
   imports |-> [m \in AllModules |-> IF m = a THEN {} ELSE {"primitive-constant"}],
   steps |-> [m \in AllModules |-> {{"primitive-constant"}}]]

\* Two of the modules in a cycle, in one package or in two, or the third linked
\* for the types that the second takes from it.
Shapes ==
  {Whole,
   [Whole EXCEPT !.package[a] = q],
   [Whole EXCEPT !.cycles = {{a, b}}, !.locals[b] = {"private-scalar-state"},
                 !.steps[b] = {{"private-scalar-state"}}],
   [Whole EXCEPT !.cycles = {{b, c}}, !.package[c] = q],
   [Whole EXCEPT !.order = <<a, b>>, !.linked = {c}, !.entries = {a, b}, !.imports[c] = {}]}

\* The modules that may be refused themselves, with the importers each takes with it.
Losses(f) ==
  IF {b, c} \in f.cycles \/ c \in f.linked THEN {[own |-> c, lost |-> {b, c}]}
  ELSE IF {a, b} \in f.cycles THEN {[own |-> c, lost |-> {c}]}
  ELSE {[own |-> c, lost |-> {c}], [own |-> b, lost |-> {b, c}]}

\* The plan is projected to the modules without refusals.
Projected(f, lost) ==
  [f EXCEPT !.order = SelectSeq(f.order, LAMBDA m : m \notin lost),
            !.cycles = {g \in f.cycles : g \cap lost = {}},
            !.linked = f.linked \ lost, !.entries = f.entries \ lost]

\* A strict run drops the files of all refused modules; a best-effort run keeps those
\* of an inherited refusal and replaces an own one's by a placeholder, unless it lies
\* outside the emit paths.
Refusals(f) ==
  {[Projected(f, l.lost) EXCEPT !.kept = AllModules \ l.lost, !.refused = l.lost] : l \in Losses(f)}
  \cup UNION {{[Projected(f, l.lost) EXCEPT !.kept = AllModules \ {l.own}, !.refused = {l.own},
                                            !.placeholders = placed] : placed \in {{}, {l.own}}} :
                l \in Losses(f)}

\* What takes the initialization from a package: a module refused or outside the
\* emit paths, a binding or a step without a carrier, a name the hooks need, or two
\* packages with one crate.
Damages(f) ==
  {f} \cup Refusals(f)
      \cup {[f EXCEPT !.kept = AllModules \ {m}] : m \in AllModules}
      \cup {[f EXCEPT !.locals[a] = {"carrier", "temporal-carrier"}, !.steps[a] = {{"carrier"}}],
            [f EXCEPT !.imports[b] = {"function-item"}],
            [f EXCEPT !.steps[b] = {{}}],
            [f EXCEPT !.reserved = {c}],
            [f EXCEPT !.crate[q] = p]}

MCFinalizations == UNION {Damages(f) : f \in Shapes}

\* Work of either phase, of the first module and of a later one, may fail.
MCFallible ==
  {[phase |-> "instantiate", module |-> a], [phase |-> "instantiate", module |-> b],
   [phase |-> "evaluate", module |-> a], [phase |-> "evaluate", module |-> b]}

=============================================================================
