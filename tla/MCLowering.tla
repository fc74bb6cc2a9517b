----------------------------- MODULE MCLowering -----------------------------
(***************************************************************************)
(* Bodies for Lowering: switches with every kind of clause in every kind   *)
(* of loop, and tries that suspend or jump in any of their clauses, split  *)
(* by what the passes preserve.                                            *)
(***************************************************************************)
EXTENDS Lowering

Jumps == {Break(NoLabel), Continue(NoLabel), Break("outer"), Continue("outer"), Return, Raise}
Endings == {Break(NoLabel), Return, Continue(NoLabel)}

\* One clause of each switch is any of these, the others are plain.
Clauses ==
  {<<>>, <<Step>>, <<Let>>, <<Await, Break(NoLabel)>>, <<Block(<<Let, Break(NoLabel)>>)>>,
   <<Try(Block(<<If(Break(NoLabel))>>), Absent, Block(<<Step>>)), Break(NoLabel)>>,
   <<If(Break(NoLabel)), Break("outer")>>}
   \cup {<<j>> : j \in Jumps}
   \cup {<<If(j), last>> : j \in {Break(NoLabel), Continue(NoLabel), Break("outer")}, last \in Endings}
   \cup {<<If(j)>> : j \in Jumps}

LabelledClauses ==
  {<<Break("switch")>>, <<If(Break("switch")), Break("switch")>>, <<Step>>, <<>>,
   <<While(NoLabel, Block(<<Break("switch")>>)), Break(NoLabel)>>}

Plain == {<<Let>>, <<Await, Break(NoLabel)>>}

Switches ==
  {Switch(NoLabel, <<Case(a), Default(b)>>) : a \in Clauses, b \in Plain}
    \cup {Switch(NoLabel, <<Default(<<Let>>), Case(a)>>) : a \in Clauses}
    \cup {Switch("switch", <<Case(a), Case(b), Default(<<Step>>)>>) :
            a \in LabelledClauses, b \in Plain}

Looped(s) == {For("outer", Let, Test, Step, Block(<<s, Step>>)),
              For("outer", Absent, Absent, Absent, Block(<<Step, s>>)),
              While("outer", Block(<<s, Step>>))}

Regions == {Block(<<s>>) : s \in {Step, Await} \cup Jumps}
Handlers == {Absent} \cup {Block(<<s>>) : s \in {Step, Await}}
              \cup {Block(<<Await, s>>) : s \in {Continue(NoLabel), Return, Raise}}
Finalizers == {Absent} \cup {Block(<<s>>) : s \in {Step, Await}}

Tries == {Try(r, h, f) : r \in Regions, h \in Handlers, f \in Finalizers}
           \ {Try(r, Absent, Absent) : r \in Regions}

Within(statements) == {Block(<<l>>) : l \in UNION {Looped(s) : s \in statements}}

\* Outside a loop, a try whose clauses may fall through, throw or return, in
\* a labelled block that one of them leaves.
Conditional(clause) == Block(<<If(clause.parts[1]), Step>>)
Closed(clauses) == {c \in clauses : c = Absent \/ ~Holds(c, {"break", "continue"})}

Bare == {Block(<<Try(r, h, Conditional(f)), Step>>) :
           r \in Closed(Regions), h \in Closed(Handlers), f \in Closed(Regions)}
          \cup {Block(<<Node("block", "inner", <<Try(Block(<<Break("inner")>>), h, r)>>), Step>>) :
           h \in Closed(Handlers), r \in Closed(Regions)}

Grammar == [backend : {"rust"}, body : Within(Switches)]
             \cup [backend : {"haxe", "cpp"}, body : Within(Tries) \cup Bare]

-----------------------------------------------------------------------------
(* The shapes whose behaviour the passes do not keep, each as a condition  *)
(* that excludes it.  All but the first concern the switches as they stand *)
(* before switch-fallthrough.                                              *)

RECURSIVE Inside(_)
\* A statement and all that stand in it.
Inside(statement) ==
  {statement} \cup UNION {Inside(statement.parts[i]) : i \in DOMAIN statement.parts}

RECURSIVE Leaves(_, _, _)
\* A jump without a label leaves a statement that is not a loop of its own.
Leaves(statement, kind, through) ==
  \/ statement.kind = kind /\ statement.label = NoLabel
  \/ /\ statement.kind \in {"block", "if", "try"} \cup through
     /\ \E i \in DOMAIN statement.parts : Leaves(statement.parts[i], kind, through)

\* No continue of a for with an update stands in the body of a try whose
\* handler would catch what the update throws.
UpdatesAreUnguarded(written) ==
  \A loop \in Inside(written) : loop.kind = "for" /\ loop.parts[Update] # Absent =>
    \A try \in Inside(loop.parts[ForBody]) :
      try.kind = "try" /\ HasHandler(try) => ~Holds(try.parts[TryBody], {"continue"})

ClausesOf(switch) == {StatementsOf(switch.parts[i]) : i \in DOMAIN switch.parts}

EndsIn(clause, kind) == clause # <<>> /\ Last(clause).kind = kind

BecomesStates(switch) ==
  LET completions == Range(ClauseCompletions(switch.parts, switch.label))
  IN  /\ "fallthrough" \in completions /\ "unsupported" \notin completions
      /\ \E clause \in ClausesOf(switch) : \E i \in DOMAIN clause : Holds(clause[i], {"let"})

\* A continue is the last statement of its clause.
ContinuesAreDirect(switch) ==
  \A clause \in ClausesOf(switch) : \A i \in DOMAIN clause :
    Leaves(clause[i], "continue", {"switch", "case", "default"})
      => i = Len(clause) /\ clause[i].kind = "continue"

\* A clause that ends in a jump elsewhere has no break of its own, and none
\* that names the switch stands in a loop.
BreaksAreOwn(switch) ==
  \A clause \in ClausesOf(switch) :
    /\ EndsIn(clause, "break") /\ Last(clause).label \notin {NoLabel, switch.label} =>
         \A i \in DOMAIN clause : ~Leaves(clause[i], "break", {})
    /\ \A i \in DOMAIN clause : \A s \in Inside(clause[i]) :
         s.kind \in Loops => ~TargetBreak(s, switch.label)

\* A state ends in a statement the second application finds terminal.
EndingsAreStable(switch) ==
  \A clause \in ClausesOf(switch) :
    /\ ~EndsIn(clause, "block")
    /\ EndsIn(clause, "continue") => Last(clause).label = NoLabel

\* A clause that becomes a branch has no break but its last statement.
BreaksAreLast(switch) ==
  \A clause \in ClausesOf(switch) : \A i \in 1 .. Len(clause) - 1 :
    ~Leaves(clause[i], "break", {})

Broken(plan) ==
  LET elected == CStyleFor(Placed(plan.body, <<>>), <<>>)
      switches == {s \in Inside(elected) : s.kind = "switch"}
      states == {s \in switches : BecomesStates(s)}
      fails(Keeps(_), among) == \E s \in among : ~Keeps(s)
  IN  (IF UpdatesAreUnguarded(plan.body) THEN {} ELSE {"update"})
        \cup (IF fails(ContinuesAreDirect, states) THEN {"continue"} ELSE {})
        \cup (IF fails(BreaksAreOwn, states) THEN {"exit"} ELSE {})
        \cup (IF fails(EndingsAreStable, states) THEN {"ending"} ELSE {})
        \cup (IF fails(BreaksAreLast, switches \ states) THEN {"break"} ELSE {})

\* The plans a run is about: those that break exactly the conditions named.
CONSTANT Breaking

ChosenPlans == {plan \in Grammar : Broken(plan) = Breaking}

\* The statements of the bodies of the plans, as they are and as lowered.
Lowered(plan) ==
  FoldLeft(LAMBDA statement, pass : IF IsRefused(statement) THEN Refused
                                    ELSE LowerWith(pass, statement),
           Placed(plan.body, <<>>), Pipeline(plan.backend))

StatementsOfPlans(plans) ==
  UNION {Inside(plan.body) : plan \in plans}
    \cup UNION {Inside(lowered) : lowered \in
                  {statement \in {Lowered(plan) : plan \in plans} : ~IsRefused(statement)}}

ChosenStatements == StatementsOfPlans(ChosenPlans)

=============================================================================
