------------------------- MODULE MCAsyncStateMachine -------------------------
(***************************************************************************)
(* Bodies for AsyncStateMachine: every body of a small grammar with two    *)
(* nested compound statements, split by what the built machine preserves.  *)
(***************************************************************************)
EXTENDS AsyncStateMachine

Leaves == {Step, Await, Return, ReturnAwait, Raise, Break(NoLabel), Continue(NoLabel)}
Labelled == {Break("outer"), Continue("outer")}

Lists(statements) == {Block(<<s>>) : s \in statements}
                       \cup {Block(<<s, Await>>) : s \in statements \ Leaves}

Compounds(bodies, handlers, finalizers, label) ==
  UNION {{If(b), While(label, b), Do(label, b)} : b \in bodies}
    \cup {IfElse(b, h) : b \in bodies, h \in handlers}
    \cup {Try(b, h, Absent) : b \in bodies, h \in handlers}
    \cup {Try(b, Absent, f) : b \in bodies, f \in finalizers}
    \cup {Try(b, h, f) : b \in bodies, h \in handlers, f \in finalizers}

Handlers == Lists({Step, Await, Return, Raise})
Finalizers == Lists({Step}) \cup {Block(<<If(Block(<<s>>))>>) : s \in {Step, Return}}

\* Arms without braces, an else-if chain, and a block its own break leaves.
Unbraced == {If(s) : s \in Leaves \cup Labelled}
              \cup {IfElse(Block(<<Await>>), If(s)) : s \in {Return, Raise, Step}}
              \cup {Node("block", "inner", <<If(Break("inner")), Step>>)}

Inner == Compounds(Lists(Leaves \cup Labelled), Handlers, Finalizers, NoLabel) \cup Unbraced
Outer == Compounds(Lists(Inner), Lists({Await}), Lists({Step}), "outer")
Grammar == {Block(<<s, Step>>) : s \in Inner \cup Outer}

\* No body reaches the state machine with an await in a finalizer; one that
\* is refused has no machine.
Bodies == {body \in Grammar : Build(body).refusal = "none"}

-----------------------------------------------------------------------------
(* The shapes whose behaviour the machine does not keep, each as a         *)
(* condition that excludes it.  They concern statements the build walks;   *)
(* those inside an execute step run as they stand.                         *)

RECURSIVE Paths(_)
Paths(statement) ==
  {<<>>} \cup UNION {{<<i>> \o path : path \in Paths(statement.parts[i])} :
                       i \in DOMAIN statement.parts}

Executed(states) ==
  UNION {{states[i].steps[k].path : k \in {k \in DOMAIN states[i].steps :
                                             states[i].steps[k].kind = "execute"}} :
           i \in DOMAIN states}

\* The walked statements of a body by path, and for each of them the loops it
\* stands in, the tries whose cleanup it is owed and those that catch its throw.
Walked(body, executed) ==
  [path \in {path \in Paths(body) : \A step \in executed : ~IsPrefix(step, path)} |->
     StatementAt(body, path)]

Inside(path, outer, parts) ==
  Len(path) > Len(outer) /\ IsPrefix(outer, path) /\ path[Len(outer) + 1] \in parts

WalkOf(node, tries) ==
  [node |-> node,
   tries |-> tries,
   loops |-> [path \in DOMAIN node |->
                {l \in DOMAIN node : node[l].kind \in Loops /\ Inside(path, l, {1})}],
   owed |-> [path \in DOMAIN node |->
               {t \in tries : HasFinalizer(node[t]) /\ Inside(path, t, {TryBody, Handler})}],
   catching |-> [path \in DOMAIN node |->
                   {t \in tries : HasHandler(node[t]) /\ Inside(path, t, {TryBody})}]]

WalkNodes(node) == WalkOf(node, {path \in DOMAIN node : node[path].kind = "try"})

Walk(body) == WalkNodes(Walked(body, Executed(Build(body).states)))

Of(walk, kinds) == {path \in DOMAIN walk.node : walk.node[path].kind \in kinds}

Owner(walk, jump) ==
  LET label == walk.node[jump].label
      owners == {l \in walk.loops[jump] : label \in {NoLabel, walk.node[l].label}}
  IN  CHOOSE l \in owners : \A other \in owners : Len(other) <= Len(l)

RECURSIVE AlwaysReturns(_)
AlwaysReturns(statement) ==
  CASE statement.kind \in {"return", "returnAwait"} -> TRUE
    [] statement.kind = "block" /\ statement.parts # <<>> -> AlwaysReturns(Last(statement.parts))
    [] statement.kind = "if" /\ Len(statement.parts) = 2 ->
         AlwaysReturns(statement.parts[1]) /\ AlwaysReturns(statement.parts[2])
    [] OTHER -> FALSE

ContinuesOnlyWhile(walk) ==
  \A jump \in Of(walk, {"continue"}) : walk.node[Owner(walk, jump)].kind = "while"

JumpsOweNoCleanup(walk) ==
  \A jump \in Of(walk, {"break", "continue"}) :
    \A t \in walk.owed[jump] : Len(t) < Len(Owner(walk, jump))

ReturnsEndTheRegion(walk) ==
  \A path \in Of(walk, {"return", "returnAwait"}) :
    \A t \in walk.owed[path] :
      /\ walk.owed[path] = {t}
      /\ ~HasHandler(walk.node[t])
      /\ AlwaysReturns(walk.node[t].parts[TryBody])

ThrowsAreUnguarded(walk) ==
  \A path \in Of(walk, {"throw"}) : walk.owed[path] = {} /\ walk.catching[path] = {}

CleanupsAreOutermost(walk) ==
  \A t \in walk.tries :
    HasFinalizer(walk.node[t]) => walk.owed[t] = {} /\ walk.catching[t] = {}

CleanupsFallThrough(walk) ==
  \A t \in walk.tries :
    HasFinalizer(walk.node[t]) => Opaque(walk.node[t].parts[Finalizer])

BrokenBy(walk) ==
  (IF ContinuesOnlyWhile(walk) THEN {} ELSE {"continue"})
    \cup (IF JumpsOweNoCleanup(walk) THEN {} ELSE {"jump"})
    \cup (IF ReturnsEndTheRegion(walk) THEN {} ELSE {"return"})
    \cup (IF ThrowsAreUnguarded(walk) THEN {} ELSE {"throw"})
    \cup (IF CleanupsAreOutermost(walk) THEN {} ELSE {"rethrow"})
    \cup (IF CleanupsFallThrough(walk) THEN {} ELSE {"cleanup"})

Broken(body) == BrokenBy(Walk(body))

\* The bodies a run is about: those that break exactly the conditions named.
CONSTANT Breaking

ChosenBodies == {body \in Bodies : Broken(body) = Breaking}

=============================================================================
