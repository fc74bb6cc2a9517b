--------------------------- MODULE ExportTracing ---------------------------
(***************************************************************************)
(* How the package graph compilation traces a named import through a       *)
(* barrel to the modules that declare the names (compilerPackageCompilation, *)
(* createCompilerPackageGraphModuleDependencies).  One cache serves every  *)
(* request.  The names of a request go to the modules they were traced to, *)
(* or, when one of them cannot be, all to the barrel itself.               *)
(*                                                                         *)
(* Left out: requests whose dependencies the caller gives itself (line     *)
(* 1030), several explicit exports of one name (1114), as of a type and a  *)
(* value, and re-exports of modules outside the graph (1128, 1138).        *)
(***************************************************************************)
EXTENDS ModuleExports

VARIABLES
  cache,    \* exportResolutionCache: <<module, name>> -> resolution
  links,    \* request -> the modules it is linked to, with the names of each
  request,  \* the request in work, or NoRequest
  targets,  \* the resolutions of its names, so far
  calls     \* the open calls of resolveCompilerPackageGraphExportSource, outermost first

tracingVars == <<cache, links, request, targets, calls>>

NoRequest == [none |-> TRUE]

Missing == [kind |-> "absent"]
Unknown == [kind |-> "unknown"]
Resolved(m, b) == [kind |-> "resolved", module |-> m, exported |-> b]

\* A call resolves a pair; it has answers, and asks for the resolutions left.
Call(p, left) == [pair |-> p, left |-> left, answers |-> {}]
Active == {calls[i].pair : i \in DOMAIN calls}

\* The exports resolved without asking another module.
Immediate(p) ==
  \/ Export(p).kind \in {"own", "through", "namespace"}
  \/ Export(p).kind = "absent" /\ p[2] = Default

ImmediateResolution(p) ==
  LET entry == Export(p)
  IN IF entry.kind \in {"own", "through"} THEN Resolved(p[1], entry.binding)
     ELSE IF entry.kind = "namespace" THEN Unknown
     ELSE Missing

\* What the others ask: the target of a re-export, or the stars in their order.
Asks(p) ==
  LET stars == graph.stars[p[1]]
  IN IF Export(p).kind = "from" THEN <<<<Export(p).from, Export(p).name>>>>
     ELSE [i \in 1..Len(stars) |-> <<stars[i], p[2]>>]

\* Mutant: the first of several declarations is taken.
StarResolutionFirst(answers) ==
  LET sources == answers \ {Missing}
  IN IF Unknown \in answers THEN Unknown
     ELSE IF sources = {} THEN Missing
     ELSE CHOOSE r \in sources : TRUE

StarResolution(answers) ==
  LET sources == answers \ {Missing}
  IN IF Unknown \in answers \/ Cardinality(sources) > 1 THEN Unknown
     ELSE IF sources = {} THEN Missing
     ELSE CHOOSE r \in sources : TRUE

\* A re-export of a name its target does not export is unknown.
Resolution(call) ==
  LET r == StarResolution(call.answers)
  IN IF Export(call.pair).kind = "from" /\ r = Missing THEN Unknown ELSE r

\* What is to be resolved next: a name of the request, or what the inner call asks.
Asked ==
  IF request = NoRequest THEN {}
  ELSE IF calls = << >> THEN {<<request.barrel, n>> : n \in request.names \ DOMAIN targets}
  ELSE IF Last(calls).left = << >> THEN {}
  ELSE {Head(Last(calls).left)}

\* r is the answer to what the innermost of the open calls asked, or p's if none is open.
Answer(p, r, open) ==
  IF open = << >>
  THEN targets' = With(targets, p[2], r) /\ calls' = << >>
  ELSE /\ calls' = [open EXCEPT ![Len(open)].left = Tail(@), ![Len(open)].answers = @ \cup {r}]
       /\ UNCHANGED targets

\* A request that drives a re-export, or that imports a namespace or nothing,
\* needs the barrel itself.
NeedsBarrel(r) ==
  \/ r.names = {}
  \/ r.barrel \in Stars(r.importer)
  \/ \E n \in Names : LET entry == Export(<<r.importer, n>>)
                      IN entry.kind \in {"from", "namespace"} /\ entry.from = r.barrel

MayReach(importer, m) ==
  LET package == graph.package
  IN package[m] = package[importer] \/ package[m] \in graph.depends[package[importer]]

\* Mutant: a renamed re-export is traced like any other.
TraceableRenamed(r, found) ==
  \A n \in r.names : found[n].kind = "resolved" /\ MayReach(r.importer, found[n].module)

\* Every name was traced, under the name it is imported by, to a package the
\* importer's depends on.
Traceable(r, found) ==
  \A n \in r.names :
    /\ found[n].kind = "resolved"
    /\ found[n].exported = n
    /\ MayReach(r.importer, found[n].module)

ToBarrel(r) == {[target |-> r.barrel, names |-> r.names]}
ToDeclarations(r, found) ==
  {[target |-> m, names |-> {n \in r.names : found[n].module = m}] :
     m \in {found[n].module : n \in r.names}}
-----------------------------------------------------------------------------
TracingInit ==
  /\ cache = << >>
  /\ links = << >>
  /\ request = NoRequest
  /\ targets = << >>
  /\ calls = << >>

KeepBarrel(r) ==
  /\ request = NoRequest
  /\ r \notin DOMAIN links
  /\ NeedsBarrel(r)
  /\ links' = With(links, r, ToBarrel(r))
  /\ UNCHANGED <<cache, request, targets, calls>>

BeginRequest(r) ==
  /\ request = NoRequest
  /\ r \notin DOMAIN links
  /\ ~NeedsBarrel(r)
  /\ request' = r
  /\ UNCHANGED <<cache, links, targets, calls>>

Recall(p) ==
  /\ p \in DOMAIN cache
  /\ Answer(p, cache[p], calls)
  /\ UNCHANGED <<cache, links, request>>

\* A name on its own path is absent.  The cut is not cached, what follows from it is.
Cut(p) ==
  /\ p \notin DOMAIN cache
  /\ p \in Active
  /\ Answer(p, Missing, calls)
  /\ UNCHANGED <<cache, links, request>>

ResolveHere(p) ==
  /\ p \notin DOMAIN cache \cup Active
  /\ Immediate(p)
  /\ cache' = With(cache, p, ImmediateResolution(p))
  /\ Answer(p, ImmediateResolution(p), calls)
  /\ UNCHANGED <<links, request>>

Descend(p) ==
  /\ p \notin DOMAIN cache \cup Active
  /\ ~Immediate(p)
  /\ calls' = Append(calls, Call(p, Asks(p)))
  /\ UNCHANGED <<cache, links, request, targets>>

Return ==
  /\ calls # << >>
  /\ LET call == Last(calls)
     IN /\ call.left = << >>
        /\ cache' = With(cache, call.pair, Resolution(call))
        /\ Answer(call.pair, Resolution(call), Front(calls))
  /\ UNCHANGED <<links, request>>

LinkRequest ==
  /\ request # NoRequest
  /\ calls = << >>
  /\ DOMAIN targets = request.names
  /\ links' = With(links, request, IF Traceable(request, targets) THEN ToDeclarations(request, targets)
                                   ELSE ToBarrel(request))
  /\ request' = NoRequest
  /\ targets' = << >>
  /\ UNCHANGED <<cache, calls>>

TracingNext ==
  \/ \E r \in graph.requests : KeepBarrel(r) \/ BeginRequest(r)
  \/ \E p \in Asked : Recall(p) \/ Cut(p) \/ ResolveHere(p) \/ Descend(p)
  \/ Return
  \/ LinkRequest

=============================================================================
